---- MODULE Spec2Model ----
(***************************************************************************)
(* A model of the BOM backend (src/bom_backend): the part catalog, the     *)
(* relationship store, the snapshot store, and the services that read and  *)
(* write them.  Every service call is one action; the stores are the       *)
(* JSON files the repositories keep, held here as the ordered record lists *)
(* the repositories write.                                                 *)
(***************************************************************************)
EXTENDS Integers, Sequences, FiniteSets, TLC

VARIABLES
    parts,      \* parts.json: records sorted by part_number
    rels,       \* relationships.json: records sorted by _sort_records
    snapshots,  \* snapshots/<id>.json: records in file name order
    last,       \* the call that ran last: its arguments and its ServiceResult
    calls       \* per caller, the call it is in the middle of: <<>> when it
                \* is between calls, else <<the call's locals>>

vars == <<parts, rels, snapshots, last, calls>>

\* the processes that call the services on one data directory
Callers == {"p1", "p2"}

(***************************************************************************)
(* Bounds of the model.                                                    *)
(***************************************************************************)
MaxQty == 1          \* largest qty passed by Spec

(***************************************************************************)
(* Strings.  Part numbers and relationship ids are compared by Python's    *)
(* str ordering; the tables below list them in that (code point) order.    *)
(***************************************************************************)
PartSeq == <<"A", "B", "C", "D", "E", "F">>
RelIdSeq == <<"R1", "R2", "R3", "R4", "R5", "R6">>
KeySeq == <<"find_no", "maturity_factor", "unit_weight", "weight_kg">>
SnapshotIdSeq == <<"snap_1_a", "snap_1_b", "snap_2_a", "snap_2_b">>
StrTable == PartSeq \o RelIdSeq \o KeySeq \o SnapshotIdSeq

StrRank == [s \in {StrTable[i] : i \in 1..Len(StrTable)} |->
                CHOOSE i \in 1..Len(StrTable) : StrTable[i] = s]
StrOrd(s) == StrRank[s]

\* str.__lt__ on the identifiers of the model
StrLess(a, b) == StrOrd(a) < StrOrd(b)

SeqToSet(s) == {s[i] : i \in 1..Len(s)}

\* separator.join(items)
RECURSIVE JoinStr(_, _)
JoinStr(items, sep) ==
    IF items = <<>> THEN ""
    ELSE IF Len(items) = 1 THEN items[1]
    ELSE items[1] \o sep \o JoinStr(Tail(items), sep)

\* sorted(set(items)) for identifiers
SortedStrings(S) ==
    [k \in 1..Cardinality(S) |->
        CHOOSE x \in S : Cardinality({y \in S : StrLess(y, x)}) = k - 1]

\* the decimal digits of a natural number, most significant first
RECURSIVE Digits(_)
Digits(n) == IF n < 10 THEN <<n>> ELSE Append(Digits(n \div 10), n % 10)

\* str.__lt__ on two strings given as character codes, and tuple.__lt__ on
\* two key tuples: lexicographic, a proper prefix first
RECURSIVE LexLess(_, _)
LexLess(s, t) ==
    IF t = <<>> THEN FALSE
    ELSE IF s = <<>> THEN TRUE
    ELSE IF Head(s) # Head(t) THEN Head(s) < Head(t)
    ELSE LexLess(Tail(s), Tail(t))

\* a stable insertion sort of <<key, item>> pairs by key
RECURSIVE SortKeyed(_)
SortKeyed(pairs) ==
    IF Len(pairs) <= 1 THEN pairs
    ELSE LET n == Len(pairs)
             done == SortKeyed(SubSeq(pairs, 1, n - 1))
             x == pairs[n]
             pos == Cardinality({i \in 1..(n - 1) : ~LexLess(x[1], done[i][1])})
         IN SubSeq(done, 1, pos) \o <<x>> \o SubSeq(done, pos + 1, n - 1)

\* sorted(items, key=...), the keys given as sequences of naturals that
\* compare as the Python keys do; Python's sort is stable
SortByKey(s, keys) ==
    LET n == Len(s)
        sorted == SortKeyed([i \in 1..n |-> <<keys[i], s[i]>>])
    IN IF \A i \in 1..(n - 1) : ~LexLess(keys[i + 1], keys[i]) THEN s
       ELSE [i \in 1..n |-> sorted[i][2]]

(***************************************************************************)
(* Python values held in attributes and passed as arguments.  Floats of    *)
(* the model are integral, so n is the value of an int, a float or a bool. *)
(***************************************************************************)
PyInt(n) == [t |-> "int", n |-> n, s |-> ""]
PyFloat(n) == [t |-> "float", n |-> n, s |-> ""]
PyStr(s) == [t |-> "str", n |-> 0, s |-> s]
PyNone == [t |-> "none", n |-> 0, s |-> ""]

IsNumber(v) == v.t \in {"int", "float"}

\* == of Python: numbers compare by value across int and float
PyEq(a, b) ==
    IF IsNumber(a) /\ IsNumber(b) THEN a.n = b.n
    ELSE a = b

\* the text of a decimal numeral held in a str ("2", "10"), if it is one
NumeralTexts == {ToString(n) : n \in 0..20}
NumeralValue(s) == CHOOSE n \in 0..20 : ToString(n) = s

\* a faulty variant of ToFloat: text that is no numeral counts as 0
ToFloatOrZero(v) ==
    IF IsNumber(v) THEN [ok |-> TRUE, n |-> v.n]
    ELSE IF v.t = "str" /\ v.s \in NumeralTexts THEN [ok |-> TRUE, n |-> NumeralValue(v.s)]
    ELSE [ok |-> TRUE, n |-> 0]

\* float(value): [ok, n]; a str parses when it is a numeral, None and other
\* text raise TypeError / ValueError
ToFloat(v) ==
    IF IsNumber(v) THEN [ok |-> TRUE, n |-> v.n]
    ELSE IF v.t = "str" /\ v.s \in NumeralTexts THEN [ok |-> TRUE, n |-> NumeralValue(v.s)]
    ELSE [ok |-> FALSE, n |-> 0]

\* canonical_number(value) for a number: Decimal(str(value)), normalized,
\* an integral value rendered as integer text
canonical_number(n) == ToString(n)

\* the text of canonical_number(n) as a sort key component: its digits as
\* character codes 1..10, closed by 0, so that texts compare as str does
\* ("10" before "2") inside a longer key
NumberTextKey(n) == [i \in 1..Len(Digits(n)) |-> Digits(n)[i] + 1] \o <<0>>

(***************************************************************************)
(* Attribute dicts: sequences of <<key, value>> with distinct keys, in     *)
(* insertion order.                                                        *)
(***************************************************************************)
DictKeys(d) == {d[i][1] : i \in 1..Len(d)}
DictGet(d, k) == LET i == CHOOSE i \in 1..Len(d) : d[i][1] = k IN d[i][2]
DictHas(d, k) == k \in DictKeys(d)

\* dict(existing).update(incoming): kept keys stay in place, new keys append
DictUpdate(old, new) ==
    LET kept == [i \in 1..Len(old) |->
                    IF DictHas(new, old[i][1]) THEN <<old[i][1], DictGet(new, old[i][1])>>
                    ELSE old[i]]
        isNew(kv) == ~DictHas(old, kv[1])
    IN kept \o SelectSeq(new, isNew)

\* json.dump(..., sort_keys=True) followed by json.load: keys come back sorted
DictSorted(d) == SortByKey(d, [i \in 1..Len(d) |-> <<StrOrd(d[i][1])>>])

\* dict.__eq__: same keys, equal values, order ignored
DictEq(a, b) ==
    /\ DictKeys(a) = DictKeys(b)
    /\ \A k \in DictKeys(a) : PyEq(DictGet(a, k), DictGet(b, k))

(***************************************************************************)
(* PartRepository (parts.json)                                             *)
(***************************************************************************)
\* parts.sort(key=lambda part: part.part_number)
SortParts(ps) == SortByKey(ps, [i \in 1..Len(ps) |-> <<StrOrd(ps[i].part_number)>>])

\* _write_records of part_to_record(...), read back by list_parts
PartStored(p) == [p EXCEPT !.attributes = DictSorted(@)]

PartGet(store, pn) ==
    LET hit == {i \in 1..Len(store) : store[i].part_number = pn}
    IN IF hit = {} THEN <<>> ELSE <<store[CHOOSE i \in hit : TRUE]>>

PartExists(store, pn) == PartGet(store, pn) # <<>>

PartUpsert(store, p) ==
    LET isOther(x) == x.part_number # p.part_number
    IN SortParts(Append(SelectSeq(store, isOther), PartStored(p)))

PartDelete(store, pn) ==
    LET isOther(x) == x.part_number # pn
    IN SelectSeq(store, isOther)

(***************************************************************************)
(* RelationshipRepository (relationships.json)                             *)
(***************************************************************************)
\* the sort key (parent, child, canonical_number(qty), rel_id)
RelSortKey(r) ==
    <<StrOrd(r.parent_part_number), StrOrd(r.child_part_number)>>
        \o NumberTextKey(r.qty) \o <<StrOrd(r.rel_id)>>

_sort_records(records) ==
    SortByKey(records, [i \in 1..Len(records) |-> RelSortKey(records[i])])

RelStored(r) == [r EXCEPT !.attributes = DictSorted(@)]

list_relationships(store) == _sort_records(store)

RelGet(store, id) ==
    LET all == list_relationships(store)
        hit == {i \in 1..Len(all) : all[i].rel_id = id}
    IN IF hit = {} THEN <<>> ELSE <<all[CHOOSE i \in hit : TRUE]>>

RelUpsert(store, r) ==
    LET isOther(x) == x.rel_id # r.rel_id
    IN _sort_records(Append(SelectSeq(list_relationships(store), isOther), RelStored(r)))

RelDelete(store, id) ==
    LET isOther(x) == x.rel_id # id
    IN _sort_records(SelectSeq(list_relationships(store), isOther))

find_children(store, pn) ==
    LET isChildOf(x) == x.parent_part_number = pn
    IN SelectSeq(list_relationships(store), isChildOf)

find_parents(store, pn) ==
    LET isParentOf(x) == x.child_part_number = pn
    IN SelectSeq(list_relationships(store), isParentOf)

\* a faulty variant of count_part_references: only the relationships the
\* part is the parent of
count_part_references_as_parent(store, pn) ==
    Cardinality({i \in 1..Len(store) : store[i].parent_part_number = pn})

count_part_references(store, pn) ==
    Cardinality({i \in 1..Len(store) :
        store[i].parent_part_number = pn \/ store[i].child_part_number = pn})

(***************************************************************************)
(* ServiceResult (result.py)                                               *)
(***************************************************************************)
ok_result(op, data, warnings) ==
    [op |-> op, ok |-> TRUE, data |-> data, errors |-> <<>>, warnings |-> warnings]

\* a faulty variant of err_result: the errors are attached to an ok result
err_result_ok(op, errors) ==
    [op |-> op, ok |-> TRUE, data |-> <<>>, errors |-> errors, warnings |-> <<>>]

err_result(op, errors) ==
    [op |-> op, ok |-> FALSE, data |-> <<>>, errors |-> errors, warnings |-> <<>>]

(***************************************************************************)
(* BOMStructureService (services/bom_structure.py)                         *)
(***************************************************************************)
_sort_relationships(relationships) ==
    SortByKey(relationships, [i \in 1..Len(relationships) |-> RelSortKey(relationships[i])])

RelNodes(relationships) ==
    {relationships[i].parent_part_number : i \in 1..Len(relationships)}
        \cup {relationships[i].child_part_number : i \in 1..Len(relationships)}

\* adjacency[parent]: the children in the order the relationships are listed
Adjacency(relationships) ==
    [n \in RelNodes(relationships) |->
        LET mine(r) == r.parent_part_number = n
            out == SelectSeq(relationships, mine)
        IN [i \in 1..Len(out) |-> out[i].child_part_number]]

\* stack_pos[node], counted from 1
StackPos(stack, node) == CHOOSE i \in 1..Len(stack) : stack[i] = node

\* a faulty variant of CyclePath: the whole stack instead of its slice from the gray node
CyclePathWholeStack(stack, child) == stack \o <<child>>

\* stack[start:] + [child]
CyclePath(stack, child) ==
    SubSeq(stack, StackPos(stack, child), Len(stack)) \o <<child>>

\* dfs(node) of _detect_cycle.  st = [color, stack, cycle]; color 0 white,
\* 1 gray, 2 black; cycle is <<>> while none is found.
RECURSIVE dfs(_, _, _)
RECURSIVE dfs_children(_, _, _, _)
dfs(adjacency, st, node) ==
    LET entered == [st EXCEPT !.color[node] = 1, !.stack = Append(@, node)]
        after == dfs_children(adjacency, entered, node, 1)
    IN IF after.cycle # <<>> THEN after
       ELSE [after EXCEPT !.color[node] = 2,
                          !.stack = SubSeq(@, 1, Len(@) - 1)]

dfs_children(adjacency, st, node, i) ==
    IF i > Len(adjacency[node]) THEN st
    ELSE LET child == adjacency[node][i] IN
         IF st.color[child] = 0 THEN
             LET sub == dfs(adjacency, st, child) IN
             IF sub.cycle # <<>> THEN sub
             ELSE dfs_children(adjacency, sub, node, i + 1)
         ELSE IF st.color[child] = 1 THEN
             [st EXCEPT !.cycle = CyclePath(st.stack, child)]
         ELSE dfs_children(adjacency, st, node, i + 1)

\* for node in sorted(nodes): if state[node] == 0: dfs(node)
RECURSIVE dfs_roots(_, _, _, _)
dfs_roots(adjacency, st, order, i) ==
    IF i > Len(order) THEN st
    ELSE IF st.color[order[i]] # 0 THEN dfs_roots(adjacency, st, order, i + 1)
    ELSE LET sub == dfs(adjacency, st, order[i]) IN
         IF sub.cycle # <<>> THEN sub
         ELSE dfs_roots(adjacency, sub, order, i + 1)

\* a faulty variant of _detect_cycle: no cycle is ever reported
_detect_cycle_none(relationships) == <<>>

\* the cycle as a list of part numbers, <<>> for None
_detect_cycle(relationships) ==
    LET nodes == RelNodes(relationships)
        st0 == [color |-> [n \in nodes |-> 0], stack |-> <<>>, cycle |-> <<>>]
    IN dfs_roots(Adjacency(relationships), st0, SortedStrings(nodes), 1).cycle

\* a faulty variant of _candidate_relationships: the candidate is not appended
_candidate_relationships_stored_only(store, candidate) ==
    LET isOther(r) == r.rel_id # candidate.rel_id
    IN SelectSeq(list_relationships(store), isOther)

\* a faulty variant of _candidate_relationships: the prior record of the
\* candidate's rel_id stays in the list
_candidate_relationships_keeping_prior(store, candidate) ==
    Append(list_relationships(store), candidate)

_candidate_relationships(store, candidate) ==
    LET isOther(r) == r.rel_id # candidate.rel_id
    IN Append(SelectSeq(list_relationships(store), isOther), candidate)

\* a faulty variant of check_then_write: the upsert runs before the cycle check
write_then_check(store, candidate, existing, warnings) ==
    LET op == "add_or_update_relationship"
        cycle == _detect_cycle(_candidate_relationships(store, candidate))
    IN IF cycle # <<>>
           THEN [rels |-> RelUpsert(store, candidate),
                 result |-> err_result(op, <<"Cycle detected: " \o JoinStr(cycle, " -> ")>>)
                                @@ [cycle |-> cycle, candidate |-> candidate]]
       ELSE [rels |-> RelUpsert(store, candidate),
             result |-> ok_result(op, [relationship |-> candidate,
                                       created |-> existing = <<>>], warnings)]

\* the cycle check and the write that end add_or_update_relationship
check_then_write(store, candidate, existing, warnings) ==
    LET op == "add_or_update_relationship"
        cycle == _detect_cycle(_candidate_relationships(store, candidate))
    IN IF cycle # <<>>
           \* cycle and candidate: the call's locals, kept beside the result
           THEN [rels |-> store,
                 result |-> err_result(op, <<"Cycle detected: " \o JoinStr(cycle, " -> ")>>)
                                @@ [cycle |-> cycle, candidate |-> candidate]]
       ELSE [rels |-> RelUpsert(store, candidate),
             result |-> ok_result(op, [relationship |-> candidate,
                                       created |-> existing = <<>>], warnings)]

\* a faulty variant of dangling_rejected: a missing endpoint never rejects
dangling_rejected_never(missing_parts, allow_dangling) == FALSE

\* if missing_parts and not allow_dangling
dangling_rejected(missing_parts, allow_dangling) == missing_parts # {} /\ ~allow_dangling

\* add_or_update_relationship as a function of the stores and the call's
\* arguments a: [rels |-> the relationship store after the call, result |->
\* the result].  a.rel_id "" stands for None; a.fresh is the id uuid4 then
\* supplies; a.stamp is last_updated or, without one, the clock's reading.
add_or_update_relationship(catalog, store, a) ==
    LET op == "add_or_update_relationship"
        fail(errors) == [rels |-> store, result |-> err_result(op, errors)]
        qty_value == ToFloat(a.qty)
        normalized_rel_id == IF a.rel_id # "" THEN a.rel_id ELSE a.fresh
        existing == RelGet(store, normalized_rel_id)
        final_attributes ==
            IF existing # <<>> /\ a.merge_attributes
                THEN DictUpdate(existing[1].attributes, a.attributes)
                ELSE a.attributes
        candidate == [rel_id |-> normalized_rel_id,
                      parent_part_number |-> a.parent_part_number,
                      child_part_number |-> a.child_part_number,
                      qty |-> qty_value.n,
                      last_updated |-> a.stamp,
                      attributes |-> final_attributes]
        missing_parts ==
            {pn \in {a.parent_part_number, a.child_part_number} : ~PartExists(catalog, pn)}
        missing_text == "Missing part(s): " \o JoinStr(SortedStrings(missing_parts), ", ")
        warnings == IF missing_parts # {} THEN <<missing_text>> ELSE <<>>
    IN IF a.parent_part_number = "" THEN fail(<<"parent_part_number is required">>)
       ELSE IF a.child_part_number = "" THEN fail(<<"child_part_number is required">>)
       ELSE IF a.parent_part_number = a.child_part_number
           THEN fail(<<"parent_part_number and child_part_number cannot be equal">>)
       ELSE IF ~qty_value.ok THEN fail(<<"qty must be numeric">>)
       ELSE IF qty_value.n <= 0 THEN fail(<<"qty must be > 0">>)
       ELSE IF dangling_rejected(missing_parts, a.allow_dangling)
           THEN fail(<<missing_text,
                       "Set allow_dangling=True to allow storing this relationship">>)
       ELSE check_then_write(store, candidate, existing, warnings)

\* the arguments of one add_or_update_relationship call
RelArgs(parent, child, qty, rel_id, fresh, attributes, stamp, allow_dangling, merge) ==
    [parent_part_number |-> parent, child_part_number |-> child, qty |-> qty,
     rel_id |-> rel_id, fresh |-> fresh, attributes |-> attributes, stamp |-> stamp,
     allow_dangling |-> allow_dangling, merge_attributes |-> merge]

AddOrUpdateRelationship(a) ==
    LET out == add_or_update_relationship(parts, rels, a)
    IN /\ rels' = out.rels
       /\ last' = out.result
       /\ UNCHANGED <<parts, snapshots, calls>>

\* add_or_update_relationship as another process sees it, in three steps.
\* First the validation, the reads of the stores and the cycle check: a call
\* that fails returns at once, one that passes keeps its candidate.
\* store_at_check records the relationships the check read and
\* store_before_write, beside the result, those the write replaced, for the
\* properties.
AddRelationshipCheck(p, a) ==
    /\ calls[p] = <<>>
    /\ LET out == add_or_update_relationship(parts, rels, a)
       IN IF ~out.result.ok
              THEN /\ last' = out.result
                   /\ calls' = calls
          ELSE /\ calls' = [calls EXCEPT ![p] =
                               <<[op |-> "add_or_update_relationship",
                                  candidate |-> out.result.data.relationship,
                                  created |-> out.result.data.created,
                                  warnings |-> out.result.warnings,
                                  read |-> <<>>,
                                  store_at_check |-> rels]>>]
               /\ last' = last
    /\ UNCHANGED <<parts, rels, snapshots>>

\* then upsert reads the relationships: list_relationships()
AddRelationshipUpsertRead(p) ==
    /\ calls[p] # <<>>
    /\ calls[p][1].op = "add_or_update_relationship"
    /\ calls[p][1].read = <<>>
    /\ calls' = [calls EXCEPT ![p][1].read = <<rels>>]
    /\ UNCHANGED <<parts, rels, snapshots, last>>

\* then upsert writes what it read with the candidate put in, and the call
\* returns
AddRelationshipUpsertWrite(p) ==
    /\ calls[p] # <<>>
    /\ calls[p][1].op = "add_or_update_relationship"
    /\ calls[p][1].read # <<>>
    /\ rels' = RelUpsert(calls[p][1].read[1], calls[p][1].candidate)
    /\ last' = ok_result("add_or_update_relationship",
                   [relationship |-> calls[p][1].candidate,
                    created |-> calls[p][1].created],
                   calls[p][1].warnings)
               @@ [store_before_write |-> rels]
    /\ calls' = [calls EXCEPT ![p] = <<>>]
    /\ UNCHANGED <<parts, snapshots>>

\* _write_records truncates the file and then fills it: a read that falls
\* into another caller's write finds no JSON document, json.load raises and
\* service_guard returns the failure
AddRelationshipTornRead(p, a) ==
    /\ \E q \in Callers \ {p} :
          /\ calls[q] # <<>>
          /\ calls[q][1].op = "add_or_update_relationship"
          /\ calls[q][1].read # <<>>
    /\ \/ calls[p] = <<>>
       \/ /\ calls[p] # <<>>
          /\ calls[p][1].op = "add_or_update_relationship"
          /\ calls[p][1].read = <<>>
    /\ last' = err_result("add_or_update_relationship",
                   <<"add_or_update_relationship failed: Expecting value: line 1 column 1 (char 0)">>)
    /\ calls' = [calls EXCEPT ![p] = <<>>]
    /\ UNCHANGED <<parts, rels, snapshots>>

DeleteRelationship(rel_id) ==
    LET op == "delete_relationship"
        deleted == RelGet(rels, rel_id) # <<>>
    IN /\ IF rel_id = ""
            THEN /\ last' = err_result(op, <<"rel_id is required">>)
                 /\ rels' = rels
          ELSE IF ~deleted
            THEN /\ last' = err_result(op, <<"Relationship '" \o rel_id \o "' not found">>)
                 /\ rels' = rels
          ELSE /\ last' = ok_result(op, [deleted |-> TRUE, rel_id |-> rel_id], <<>>)
               /\ rels' = RelDelete(rels, rel_id)
       /\ UNCHANGED <<parts, snapshots, calls>>

(***************************************************************************)
(* PartCatalogService (services/part_catalog.py)                           *)
(***************************************************************************)
AddOrUpdatePart(part_number, name, attributes, stamp, merge_attributes) ==
    LET op == "add_or_update_part"
        existing == PartGet(parts, part_number)
        final_attributes ==
            IF existing # <<>> /\ merge_attributes
                THEN DictUpdate(existing[1].attributes, attributes)
                ELSE attributes
        part == [part_number |-> part_number, name |-> name,
                 last_updated |-> stamp, attributes |-> final_attributes]
    IN /\ IF part_number = ""
            THEN /\ last' = err_result(op, <<"part_number is required">>)
                 /\ parts' = parts
          ELSE IF name = ""
            THEN /\ last' = err_result(op, <<"name is required">>)
                 /\ parts' = parts
          ELSE /\ last' = ok_result(op, [part |-> part, created |-> existing = <<>>], <<>>)
               /\ parts' = PartUpsert(parts, part)
       /\ UNCHANGED <<rels, snapshots, calls>>

DeletePart(part_number, allow_if_referenced) ==
    LET op == "delete_part"
        reference_count == count_part_references(rels, part_number)
    IN /\ IF part_number = ""
            THEN /\ last' = err_result(op, <<"part_number is required">>)
                 /\ parts' = parts
          ELSE IF ~allow_if_referenced /\ reference_count > 0
            THEN /\ last' = err_result(op, <<"Part '" \o part_number \o "' has "
                                \o ToString(reference_count)
                                \o " relationship references and cannot be deleted">>)
                 /\ parts' = parts
          ELSE IF ~PartExists(parts, part_number)
            THEN /\ last' = err_result(op, <<"Part '" \o part_number \o "' not found">>)
                 /\ parts' = parts
          ELSE /\ last' = ok_result(op, [deleted |-> TRUE, part_number |-> part_number], <<>>)
               /\ parts' = PartDelete(parts, part_number)
       /\ UNCHANGED <<rels, snapshots, calls>>

\* a faulty variant of subgraph_children: a relationship to a part some listed
\* relationship already leads to is skipped (a spanning tree)
subgraph_children_tree(children, i, acc) ==
    LET listed == {acc.found[j].child_part_number : j \in 1..Len(acc.found)}
        fresh(r) == r.child_part_number \notin listed
        kept == SelectSeq(children, fresh)
    IN [ids |-> acc.ids \cup {kept[j].rel_id : j \in 1..Len(kept)},
        found |-> acc.found \o kept,
        queue |-> acc.queue \o [j \in 1..Len(kept) |-> kept[j].child_part_number]]

\* the for loop over find_children(current) in get_subgraph:
\* acc = [ids, found, queue]
RECURSIVE subgraph_children(_, _, _)
subgraph_children(children, i, acc) ==
    IF i > Len(children) THEN acc
    ELSE IF children[i].rel_id \in acc.ids THEN subgraph_children(children, i + 1, acc)
    ELSE subgraph_children(children, i + 1,
             [ids |-> acc.ids \cup {children[i].rel_id},
              found |-> Append(acc.found, children[i]),
              queue |-> Append(acc.queue, children[i].child_part_number)])

\* the while loop of get_subgraph
RECURSIVE subgraph_loop(_, _, _)
subgraph_loop(store, visited_nodes, acc) ==
    IF acc.queue = <<>> THEN [visited_nodes |-> visited_nodes, found |-> acc.found]
    ELSE LET current == Head(acc.queue)
             rest == [acc EXCEPT !.queue = Tail(@)]
         IN IF current \in visited_nodes
                THEN subgraph_loop(store, visited_nodes, rest)
            ELSE subgraph_loop(store, visited_nodes \cup {current},
                     subgraph_children(find_children(store, current), 1, rest))

\* the result get_subgraph returns once its loop has ended with walk =
\* [visited_nodes, found]
walk_result(catalog, root_part_number, walk) ==
    LET order == SortedStrings(walk.visited_nodes)
        present(pn) == PartExists(catalog, pn)
        absent(pn) == ~PartExists(catalog, pn)
        found_parts == SelectSeq(order, present)
        missing_parts == SelectSeq(order, absent)
    IN ok_result("get_subgraph",
           [root_part_number |-> root_part_number,
            parts |-> [i \in 1..Len(found_parts) |-> PartGet(catalog, found_parts[i])[1]],
            relationships |-> _sort_relationships(walk.found)],
           IF missing_parts # <<>>
               THEN <<"Missing parts in catalog: " \o JoinStr(missing_parts, ", ")>>
               ELSE <<>>)

get_subgraph(catalog, store, root_part_number) ==
    IF root_part_number = ""
        THEN err_result("get_subgraph", <<"root_part_number is required">>)
    ELSE walk_result(catalog, root_part_number,
             subgraph_loop(store, {},
                 [ids |-> {}, found |-> <<>>, queue |-> <<root_part_number>>]))

GetSubgraph(root_part_number) ==
    /\ last' = get_subgraph(parts, rels, root_part_number)
    /\ UNCHANGED <<parts, rels, snapshots, calls>>

\* get_subgraph iteration by iteration: a call begins with the root in its
\* queue and nothing visited
SubgraphBegin(p, root_part_number) ==
    /\ calls[p] = <<>>
    /\ root_part_number # ""
    /\ calls' = [calls EXCEPT ![p] =
                    <<[op |-> "get_subgraph", root_part_number |-> root_part_number,
                       visited_nodes |-> {},
                       acc |-> [ids |-> {}, found |-> <<>>, queue |-> <<root_part_number>>]]>>]
    /\ UNCHANGED <<parts, rels, snapshots, last>>

\* one iteration of the while loop of get_subgraph: a part visited before
\* is dropped, another is marked visited and its children are listed
SubgraphIterate(p) ==
    /\ calls[p] # <<>>
    /\ calls[p][1].op = "get_subgraph"
    /\ calls[p][1].acc.queue # <<>>
    /\ LET c == calls[p][1]
           current == Head(c.acc.queue)
           rest == [c.acc EXCEPT !.queue = Tail(@)]
       IN calls' = IF current \in c.visited_nodes
                       THEN [calls EXCEPT ![p][1].acc = rest]
                   ELSE [calls EXCEPT
                            ![p][1].visited_nodes = @ \cup {current},
                            ![p][1].acc = subgraph_children(find_children(rels, current),
                                                            1, rest)]
    /\ UNCHANGED <<parts, rels, snapshots, last>>

\* the queue is empty: the loop ends and get_subgraph returns
SubgraphReturn(p) ==
    /\ calls[p] # <<>>
    /\ calls[p][1].op = "get_subgraph"
    /\ calls[p][1].acc.queue = <<>>
    /\ last' = walk_result(parts, calls[p][1].root_part_number,
                   [visited_nodes |-> calls[p][1].visited_nodes,
                    found |-> calls[p][1].acc.found])
    /\ calls' = [calls EXCEPT ![p] = <<>>]
    /\ UNCHANGED <<parts, rels, snapshots>>

\* RelationshipRepository.upsert and delete called on the store directly,
\* past the service and its cycle check
RepositoryUpsert(r) ==
    /\ rels' = RelUpsert(rels, r)
    /\ UNCHANGED <<parts, snapshots, last, calls>>

RepositoryDelete(rel_id) ==
    /\ rels' = RelDelete(rels, rel_id)
    /\ UNCHANGED <<parts, snapshots, last, calls>>

\* get_children and get_parents: the relationships of the part in
\* _sort_relationships order, each with the catalog record of the other end
\* (<<>> for None) and a warning when that part is not catalogued
get_children(catalog, store, parent_part_number) ==
    LET op == "get_children"
        relationships == _sort_relationships(find_children(store, parent_part_number))
        isMissing(r) == ~PartExists(catalog, r.child_part_number)
        missing == SelectSeq(relationships, isMissing)
    IN IF parent_part_number = "" THEN err_result(op, <<"parent_part_number is required">>)
       ELSE ok_result(op,
                [parent_part_number |-> parent_part_number,
                 children |-> [i \in 1..Len(relationships) |->
                                  [relationship |-> relationships[i],
                                   child_part |->
                                       PartGet(catalog, relationships[i].child_part_number)]]],
                [i \in 1..Len(missing) |->
                    "Child part '" \o missing[i].child_part_number
                        \o "' does not exist in part catalog"])

get_parents(catalog, store, child_part_number) ==
    LET op == "get_parents"
        relationships == _sort_relationships(find_parents(store, child_part_number))
        isMissing(r) == ~PartExists(catalog, r.parent_part_number)
        missing == SelectSeq(relationships, isMissing)
    IN IF child_part_number = "" THEN err_result(op, <<"child_part_number is required">>)
       ELSE ok_result(op,
                [child_part_number |-> child_part_number,
                 parents |-> [i \in 1..Len(relationships) |->
                                 [relationship |-> relationships[i],
                                  parent_part |->
                                      PartGet(catalog, relationships[i].parent_part_number)]]],
                [i \in 1..Len(missing) |->
                    "Parent part '" \o missing[i].parent_part_number
                        \o "' does not exist in part catalog"])

GetChildren(parent_part_number) ==
    /\ last' = get_children(parts, rels, parent_part_number)
    /\ UNCHANGED <<parts, rels, snapshots, calls>>

GetParents(child_part_number) ==
    /\ last' = get_parents(parts, rels, child_part_number)
    /\ UNCHANGED <<parts, rels, snapshots, calls>>

(***************************************************************************)
(* utils/parsing.py and utils/canonical.py.  Attribute values of the model *)
(* are scalars (no nested dict or list).                                   *)
(***************************************************************************)
\* the numeric literals the model spells: text -> <<pattern, value>>
LiteralTexts == {"2", "2.0", "2.00", "3", "3.0"}
IntLiteralTexts == {"2", "3"}
LiteralValue(text) == IF text \in {"2", "2.0", "2.00"} THEN 2 ELSE 3

\* parse_csv_value on a non-empty text: _INT_PATTERN gives an int,
\* _FLOAT_PATTERN a float, anything else stays text
parse_csv_value(text) ==
    IF text \in IntLiteralTexts THEN PyInt(LiteralValue(text))
    ELSE IF text \in LiteralTexts THEN PyFloat(LiteralValue(text))
    ELSE PyStr(text)

\* parse_qty: float(parse_csv_value(raw))
parse_qty(text) == ToFloat(parse_csv_value(text))

\* _canonicalize_value on a scalar: bool, None and int pass through, a
\* float becomes the str canonical_number renders, text passes through
_canonicalize_value(value) ==
    IF value.t = "float" THEN PyStr(canonical_number(value.n)) ELSE value

\* _canonicalize_value on an attribute dict: keys sorted, values canonical
canonicalize_attributes(attributes) ==
    LET sorted == DictSorted(attributes)
    IN [i \in 1..Len(sorted) |-> <<sorted[i][1], _canonicalize_value(sorted[i][2])>>]

canonicalize_part(part) ==
    [part EXCEPT !.attributes = canonicalize_attributes(@)]

\* qty becomes the text canonical_number(qty)
canonicalize_relationship(relationship) ==
    [relationship EXCEPT !.qty = PyStr(canonical_number(@)),
                         !.attributes = canonicalize_attributes(@)]

\* the sort key (parent, child, qty text, rel_id) of the canonical records
CanonicalRelSortKey(r) ==
    <<StrOrd(r.parent_part_number), StrOrd(r.child_part_number)>>
        \o NumberTextKey(NumeralValue(r.qty.s)) \o <<StrOrd(r.rel_id)>>

canonical_snapshot_payload(root_part_number, part_list, relationships) ==
    LET canonical_parts == [i \in 1..Len(part_list) |-> canonicalize_part(part_list[i])]
        canonical_relationships ==
            [i \in 1..Len(relationships) |-> canonicalize_relationship(relationships[i])]
    IN [root_part_number |-> root_part_number,
        parts |-> SortParts(canonical_parts),
        relationships |->
            SortByKey(canonical_relationships,
                      [i \in 1..Len(canonical_relationships) |->
                          CanonicalRelSortKey(canonical_relationships[i])])]

\* json.dumps of a str (the texts of the model need no escape)
JsonStr(s) == "\"" \o s \o "\""

\* json.dumps of a scalar: repr of a float of the model ends in ".0"
JsonValue(v) ==
    IF v.t = "int" THEN ToString(v.n)
    ELSE IF v.t = "float" THEN ToString(v.n) \o ".0"
    ELSE IF v.t = "str" THEN JsonStr(v.s)
    ELSE "null"

\* json.dumps(dict, separators=(",", ":"), sort_keys=True)
JsonDict(d) ==
    LET sorted == DictSorted(d)
    IN "{" \o JoinStr([i \in 1..Len(sorted) |->
                          JsonStr(sorted[i][1]) \o ":" \o JsonValue(sorted[i][2])], ",")
           \o "}"

\* last_updated and created_at: the clock reading tick as an ISO text
IsoTime(tick) == "T" \o ToString(tick)

\* the canonical part record, keys in sort_keys order
JsonPart(p) ==
    "{\"attributes\":" \o JsonDict(p.attributes)
        \o ",\"last_updated\":" \o JsonStr(IsoTime(p.last_updated))
        \o ",\"name\":" \o JsonStr(p.name)
        \o ",\"part_number\":" \o JsonStr(p.part_number) \o "}"

JsonRelationship(r) ==
    "{\"attributes\":" \o JsonDict(r.attributes)
        \o ",\"child_part_number\":" \o JsonStr(r.child_part_number)
        \o ",\"last_updated\":" \o JsonStr(IsoTime(r.last_updated))
        \o ",\"parent_part_number\":" \o JsonStr(r.parent_part_number)
        \o ",\"qty\":" \o JsonValue(r.qty)
        \o ",\"rel_id\":" \o JsonStr(r.rel_id) \o "}"

\* json.dumps(payload, separators=(",", ":"), sort_keys=True, ensure_ascii=True)
JsonPayload(payload) ==
    "{\"parts\":["
        \o JoinStr([i \in 1..Len(payload.parts) |-> JsonPart(payload.parts[i])], ",")
        \o "],\"relationships\":["
        \o JoinStr([i \in 1..Len(payload.relationships) |->
                       JsonRelationship(payload.relationships[i])], ",")
        \o "],\"root_part_number\":" \o JsonStr(payload.root_part_number) \o "}"

\* hashlib.sha256(...).hexdigest(): the digest is taken to be injective, so
\* it is the text it digests, marked
sha256_hexdigest(encoded) == "sha256:" \o encoded

build_signature(root_part_number, part_list, relationships) ==
    sha256_hexdigest(JsonPayload(
        canonical_snapshot_payload(root_part_number, part_list, relationships)))

(***************************************************************************)
(* SnapshotRepository (snapshots/<snapshot_id>.json)                       *)
(***************************************************************************)
SnapshotGet(store, snapshot_id) ==
    LET hit == {i \in 1..Len(store) : store[i].snapshot_id = snapshot_id}
    IN IF hit = {} THEN <<>> ELSE <<store[CHOOSE i \in hit : TRUE]>>

\* the directory with the file of snapshot written (or written over)
SnapshotWrite(store, snapshot) ==
    LET isOther(x) == x.snapshot_id # snapshot.snapshot_id
        files == Append(SelectSeq(store, isOther), snapshot)
    IN SortByKey(files, [i \in 1..Len(files) |-> <<StrOrd(files[i].snapshot_id)>>])

\* a faulty variant of SnapshotSave: the file is written whether or not it exists
SnapshotSaveOver(store, snapshot) ==
    [raised |-> FALSE, snapshots |-> SnapshotWrite(store, snapshot)]

\* save: raises ValueError when the file exists, writes it otherwise
SnapshotSave(store, snapshot) ==
    IF SnapshotGet(store, snapshot.snapshot_id) # <<>>
        THEN [raised |-> TRUE, snapshots |-> store]
    ELSE [raised |-> FALSE, snapshots |-> SnapshotWrite(store, snapshot)]

\* a faulty variant of list_snapshots: no snapshot is found
list_snapshots_none(store, root_part_number) == <<>>

\* list_snapshots(root_part_number): "" lists every root; sorted by
\* (created_at, snapshot_id)
list_snapshots(store, root_part_number) ==
    LET wanted(x) == root_part_number = "" \/ x.root_part_number = root_part_number
        listed == SelectSeq(store, wanted)
    IN SortByKey(listed, [i \in 1..Len(listed) |->
                             <<listed[i].created_at, StrOrd(listed[i].snapshot_id)>>])

(***************************************************************************)
(* SnapshotService (services/snapshot_diff.py)                             *)
(***************************************************************************)
\* sorted by (parent, child, qty, rel_id), qty compared as a number
_ordered_relationships(relationships) ==
    SortByKey(relationships,
              [i \in 1..Len(relationships) |->
                  <<StrOrd(relationships[i].parent_part_number),
                    StrOrd(relationships[i].child_part_number),
                    relationships[i].qty,
                    StrOrd(relationships[i].rel_id)>>])

_ordered_parts(part_list) == SortParts(part_list)

\* a faulty variant of frozen_relationships: every stored relationship is
\* frozen, whatever the traversal found
frozen_relationships_all(store, relationship_records) ==
    _ordered_relationships(list_relationships(store))

\* the stored records of the relationships get_subgraph found, ordered
frozen_relationships(store, relationship_records) ==
    LET relationship_lookup_ids ==
            {relationship_records[i].rel_id : i \in 1..Len(relationship_records)}
        looked_up(r) == r.rel_id \in relationship_lookup_ids
    IN _ordered_relationships(SelectSeq(list_relationships(store), looked_up))

\* a faulty variant of reachable_part_numbers: the root is not put in
reachable_part_numbers_ends_only(root_part_number, relationships) ==
    SortedStrings(RelNodes(relationships))

\* sorted(reachable_parts): the root and both ends of every frozen relationship
reachable_part_numbers(root_part_number, relationships) ==
    SortedStrings({root_part_number} \cup RelNodes(relationships))

\* the catalogued parts among order, ordered
frozen_parts(catalog, order) ==
    LET present(pn) == PartExists(catalog, pn)
        found == SelectSeq(order, present)
    IN _ordered_parts([i \in 1..Len(found) |-> PartGet(catalog, found[i])[1]])

\* one warning for every part of order the catalog lacks
missing_part_warnings(catalog, order) ==
    LET absent(pn) == ~PartExists(catalog, pn)
        missing == SelectSeq(order, absent)
    IN [i \in 1..Len(missing) |->
           "Part '" \o missing[i] \o "' is referenced in BOM but missing from catalog"]

\* snapshot_id: "snap_", the clock reading, "_", eight hex digits of a uuid4
SnapshotId(created_at, uuid) == "snap_" \o ToString(created_at) \o "_" \o uuid

\* snapshot_repo.save(snapshot) and the result that follows; the ValueError
\* of save comes back through service_guard
save_snapshot(snaps, snapshot, warnings) ==
    LET op == "create_snapshot"
        saved == SnapshotSave(snaps, snapshot)
    IN IF saved.raised
           THEN [snapshots |-> snaps,
                 result |-> err_result(op, <<"create_snapshot failed: Snapshot '"
                                \o snapshot.snapshot_id \o "' already exists">>)]
       ELSE [snapshots |-> saved.snapshots,
             result |-> ok_result(op, [snapshot |-> snapshot, deduplicated |-> FALSE],
                                  warnings)]

\* create_snapshot from the signature on: the deduplication loop, then the
\* new record
create_signed(snaps, a, part_list, relationships, warnings, signature) ==
    LET same(existing) == existing.signature = signature
        matches == SelectSeq(list_snapshots(snaps, a.root_part_number), same)
    IN IF a.deduplicate_if_identical /\ matches # <<>>
           THEN [snapshots |-> snaps,
                 result |-> ok_result("create_snapshot",
                                [snapshot |-> matches[1], deduplicated |-> TRUE], warnings)]
       ELSE save_snapshot(snaps,
                [snapshot_id |-> SnapshotId(a.created_at, a.uuid),
                 root_part_number |-> a.root_part_number,
                 created_at |-> a.created_at,
                 signature |-> signature,
                 parts |-> part_list,
                 relationships |-> relationships,
                 label |-> IF a.label = "" THEN PyNone ELSE PyStr(a.label)],
                warnings)

\* create_snapshot from the frozen records on
create_frozen(snaps, a, part_list, relationships, warnings) ==
    create_signed(snaps, a, part_list, relationships, warnings,
                  build_signature(a.root_part_number, part_list, relationships))

\* create_snapshot from the reachable part numbers on
create_reachable(catalog, snaps, a, subgraph_warnings, relationships, order) ==
    create_frozen(snaps, a, frozen_parts(catalog, order), relationships,
                  subgraph_warnings \o missing_part_warnings(catalog, order))

\* create_snapshot from the result of get_subgraph on
create_from_subgraph(catalog, store, snaps, a, subgraph_result, relationships) ==
    IF ~subgraph_result.ok THEN [snapshots |-> snaps, result |-> subgraph_result]
    ELSE create_reachable(catalog, snaps, a, subgraph_result.warnings, relationships,
                          reachable_part_numbers(a.root_part_number, relationships))

\* create_snapshot as a function of the stores and the call's arguments a:
\* [snapshots |-> the snapshot store after the call, result |-> the result].
\* a.label "" stands for None, a.created_at is the clock's reading, a.uuid
\* the digits uuid4 supplies.
create_snapshot(catalog, store, snaps, a) ==
    IF a.root_part_number = ""
        THEN [snapshots |-> snaps,
              result |-> err_result("create_snapshot", <<"root_part_number is required">>)]
    ELSE create_from_subgraph(catalog, store, snaps, a,
             get_subgraph(catalog, store, a.root_part_number),
             frozen_relationships(store,
                 get_subgraph(catalog, store, a.root_part_number).data.relationships))

\* the arguments of one create_snapshot call
SnapshotArgs(root_part_number, label, deduplicate_if_identical, created_at, uuid) ==
    [root_part_number |-> root_part_number, label |-> label,
     deduplicate_if_identical |-> deduplicate_if_identical,
     created_at |-> created_at, uuid |-> uuid]

\* last keeps the call's arguments beside its result
CreateSnapshot(a) ==
    LET out == create_snapshot(parts, rels, snapshots, a)
    IN /\ snapshots' = out.snapshots
       /\ last' = out.result @@ [args |-> a]
       /\ UNCHANGED <<parts, rels, calls>>

\* create_snapshot as another process sees it, in two steps: the traversal
\* (get_subgraph) and, from a fresh read of relationships.json on, the
\* rest.  The first step returns at once when the call fails early; else
\* the caller keeps the subgraph result.  store_at_traversal records the
\* relationships the traversal read, for the properties.
CreateSnapshotTraverse(p, a) ==
    /\ calls[p] = <<>>
    /\ IF a.root_part_number = "" \/ ~get_subgraph(parts, rels, a.root_part_number).ok
           THEN /\ last' = create_snapshot(parts, rels, snapshots, a).result @@ [args |-> a]
                /\ calls' = calls
       ELSE /\ calls' = [calls EXCEPT ![p] =
                            <<[op |-> "create_snapshot", args |-> a,
                               subgraph_result |->
                                   get_subgraph(parts, rels, a.root_part_number),
                               store_at_traversal |-> rels]>>]
            /\ last' = last
    /\ UNCHANGED <<parts, rels, snapshots>>

\* the second step: list_relationships() is read now, filtered by the rel_id
\* values the traversal found
CreateSnapshotFreeze(p) ==
    /\ calls[p] # <<>>
    /\ calls[p][1].op = "create_snapshot"
    /\ LET c == calls[p][1]
           out == create_from_subgraph(parts, rels, snapshots, c.args, c.subgraph_result,
                      frozen_relationships(rels, c.subgraph_result.data.relationships))
       IN /\ snapshots' = out.snapshots
          /\ last' = out.result @@ [args |-> c.args,
                                    store_at_traversal |-> c.store_at_traversal]
    /\ calls' = [calls EXCEPT ![p] = <<>>]
    /\ UNCHANGED <<parts, rels>>

\* the re-read of relationships.json falls into a write of another process:
\* json.load raises and service_guard returns the failure
CreateSnapshotTornRead(p) ==
    /\ calls[p] # <<>>
    /\ calls[p][1].op = "create_snapshot"
    /\ last' = err_result("create_snapshot",
                   <<"create_snapshot failed: Expecting value: line 1 column 1 (char 0)">>)
               @@ [args |-> calls[p][1].args]
    /\ calls' = [calls EXCEPT ![p] = <<>>]
    /\ UNCHANGED <<parts, rels, snapshots>>

get_snapshot(snaps, snapshot_id) ==
    LET op == "get_snapshot"
        snapshot == SnapshotGet(snaps, snapshot_id)
    IN IF snapshot_id = "" THEN err_result(op, <<"snapshot_id is required">>)
       ELSE IF snapshot = <<>>
           THEN err_result(op, <<"Snapshot '" \o snapshot_id \o "' not found">>)
       ELSE ok_result(op, [snapshot |-> snapshot[1]], <<>>)

GetSnapshot(snapshot_id) ==
    /\ last' = get_snapshot(snapshots, snapshot_id)
    /\ UNCHANGED <<parts, rels, snapshots, calls>>

(***************************************************************************)
(* SnapshotDiffService (services/snapshot_diff.py)                         *)
(***************************************************************************)
\* _attributes_diff: added and removed as dicts, modified as key ->
\* <<before, after>>, keys sorted
_attributes_diff(old, new) ==
    LET added_keys == SortedStrings(DictKeys(new) \ DictKeys(old))
        removed_keys == SortedStrings(DictKeys(old) \ DictKeys(new))
        differs(k) == ~PyEq(DictGet(old, k), DictGet(new, k))
        modified_keys ==
            SelectSeq(SortedStrings(DictKeys(old) \cap DictKeys(new)), differs)
    IN [added |-> [i \in 1..Len(added_keys) |->
                      <<added_keys[i], DictGet(new, added_keys[i])>>],
        removed |-> [i \in 1..Len(removed_keys) |->
                        <<removed_keys[i], DictGet(old, removed_keys[i])>>],
        modified |-> [i \in 1..Len(modified_keys) |->
                         <<modified_keys[i],
                           <<DictGet(old, modified_keys[i]), DictGet(new, modified_keys[i])>>>>]]

\* None when the field is unchanged, {"before", "after"} otherwise
FieldChange(before, after) ==
    IF before = after THEN <<>> ELSE <<[before |-> before, after |-> after]>>

\* the records of a list keyed by a field: a later record replaces an earlier
\* one with the same key
PartByNumber(part_list, pn) ==
    part_list[CHOOSE i \in 1..Len(part_list) :
        /\ part_list[i].part_number = pn
        /\ \A j \in (i + 1)..Len(part_list) : part_list[j].part_number # pn]

RelById(relationships, id) ==
    relationships[CHOOSE i \in 1..Len(relationships) :
        /\ relationships[i].rel_id = id
        /\ \A j \in (i + 1)..Len(relationships) : relationships[j].rel_id # id]

PartUnmodified(before, after) ==
    /\ before.name = after.name
    /\ before.last_updated = after.last_updated
    /\ DictEq(before.attributes, after.attributes)

RelUnmodified(before, after) ==
    /\ before.parent_part_number = after.parent_part_number
    /\ before.child_part_number = after.child_part_number
    /\ before.qty = after.qty
    /\ before.last_updated = after.last_updated
    /\ DictEq(before.attributes, after.attributes)

part_changes(parts_a, parts_b) ==
    LET keys_a == {parts_a[i].part_number : i \in 1..Len(parts_a)}
        keys_b == {parts_b[i].part_number : i \in 1..Len(parts_b)}
        added_part_numbers == SortedStrings(keys_b \ keys_a)
        removed_part_numbers == SortedStrings(keys_a \ keys_b)
        changed(pn) == ~PartUnmodified(PartByNumber(parts_a, pn), PartByNumber(parts_b, pn))
        modified_part_numbers == SelectSeq(SortedStrings(keys_a \cap keys_b), changed)
        entry(pn) ==
            LET before == PartByNumber(parts_a, pn)
                after == PartByNumber(parts_b, pn)
            IN [part_number |-> pn,
                changes |-> [name |-> FieldChange(before.name, after.name),
                             last_updated |->
                                 FieldChange(before.last_updated, after.last_updated),
                             attributes |->
                                 _attributes_diff(before.attributes, after.attributes)]]
    IN [added |-> [i \in 1..Len(added_part_numbers) |->
                      PartByNumber(parts_b, added_part_numbers[i])],
        removed |-> [i \in 1..Len(removed_part_numbers) |->
                        PartByNumber(parts_a, removed_part_numbers[i])],
        modified |-> [i \in 1..Len(modified_part_numbers) |->
                         entry(modified_part_numbers[i])]]

relationship_changes(rels_a, rels_b) ==
    LET keys_a == {rels_a[i].rel_id : i \in 1..Len(rels_a)}
        keys_b == {rels_b[i].rel_id : i \in 1..Len(rels_b)}
        added_rel_ids == SortedStrings(keys_b \ keys_a)
        removed_rel_ids == SortedStrings(keys_a \ keys_b)
        changed(id) == ~RelUnmodified(RelById(rels_a, id), RelById(rels_b, id))
        modified_rel_ids == SelectSeq(SortedStrings(keys_a \cap keys_b), changed)
        entry(id) ==
            LET before == RelById(rels_a, id)
                after == RelById(rels_b, id)
            IN [rel_id |-> id,
                changes |-> [parent_part_number |->
                                 FieldChange(before.parent_part_number,
                                             after.parent_part_number),
                             child_part_number |->
                                 FieldChange(before.child_part_number,
                                             after.child_part_number),
                             qty |-> FieldChange(before.qty, after.qty),
                             last_updated |->
                                 FieldChange(before.last_updated, after.last_updated),
                             attributes |->
                                 _attributes_diff(before.attributes, after.attributes)]]
    IN [added |-> [i \in 1..Len(added_rel_ids) |-> RelById(rels_b, added_rel_ids[i])],
        removed |-> [i \in 1..Len(removed_rel_ids) |-> RelById(rels_a, removed_rel_ids[i])],
        modified |-> [i \in 1..Len(modified_rel_ids) |-> entry(modified_rel_ids[i])]]

\* a faulty variant of diff_equal: equal repeats signature_equal
diff_equal_signature_only(signature_equal, nothing_changed) == signature_equal

\* data["equal"]: signature_equal, replaced when the signatures differ by
\* whether all six collections are empty
diff_equal(signature_equal, nothing_changed) ==
    IF signature_equal THEN TRUE ELSE nothing_changed

compare_snapshots(snaps, snapshot_id_a, snapshot_id_b) ==
    LET op == "compare_snapshots"
        snapshot_a == SnapshotGet(snaps, snapshot_id_a)
        snapshot_b == SnapshotGet(snaps, snapshot_id_b)
        errors ==
            (IF snapshot_a = <<>>
                 THEN <<"Snapshot '" \o snapshot_id_a \o "' not found">> ELSE <<>>)
            \o (IF snapshot_b = <<>>
                    THEN <<"Snapshot '" \o snapshot_id_b \o "' not found">> ELSE <<>>)
        a == snapshot_a[1]
        b == snapshot_b[1]
        signature_equal == a.signature = b.signature
        pc == part_changes(a.parts, b.parts)
        rc == relationship_changes(a.relationships, b.relationships)
        nothing_changed ==
            /\ pc.added = <<>> /\ pc.removed = <<>> /\ pc.modified = <<>>
            /\ rc.added = <<>> /\ rc.removed = <<>> /\ rc.modified = <<>>
    IN IF snapshot_id_a = "" \/ snapshot_id_b = ""
           THEN err_result(op, <<"snapshot_id_a and snapshot_id_b are required">>)
       ELSE IF errors # <<>> THEN err_result(op, errors)
       ELSE ok_result(op,
                [snapshot_a |-> [snapshot_id |-> a.snapshot_id, signature |-> a.signature,
                                 created_at |-> a.created_at],
                 snapshot_b |-> [snapshot_id |-> b.snapshot_id, signature |-> b.signature,
                                 created_at |-> b.created_at],
                 signature_equal |-> signature_equal,
                 equal |-> diff_equal(signature_equal, nothing_changed),
                 part_changes |-> pc,
                 relationship_changes |-> rc],
                <<>>)

CompareSnapshots(snapshot_id_a, snapshot_id_b) ==
    /\ last' = compare_snapshots(snapshots, snapshot_id_a, snapshot_id_b)
    /\ UNCHANGED <<parts, rels, snapshots, calls>>

(***************************************************************************)
(* RollupService (services/rollups.py)                                     *)
(***************************************************************************)
\* a faulty variant of child_multiplier: the qty of the last relationship alone
child_multiplier_last(quantity_multiplier, qty) == qty

\* quantity_multiplier * relationship.qty
child_multiplier(quantity_multiplier, qty) == quantity_multiplier * qty

\* a faulty variant of AddWarning: the warning is appended even when it is
\* already listed
AddWarningAgain(warnings, warning) == Append(warnings, warning)

\* warnings.append(warning) unless warning_set holds it
AddWarning(warnings, warning) ==
    IF warning \in SeqToSet(warnings) THEN warnings ELSE Append(warnings, warning)

\* str(raw_value) inside a warning
ValueText(v) ==
    IF v.t = "str" THEN v.s
    ELSE IF v.t = "float" THEN ToString(v.n) \o ".0"
    ELSE IF v.t = "int" THEN ToString(v.n)
    ELSE "None"

\* a faulty variant of evaluate_here: the root is evaluated whatever
\* include_root says
evaluate_here_always(include_root, path) == TRUE

\* whether a rollup evaluates the part at the end of path: the root, whose
\* path has one element, only with include_root
evaluate_here(include_root, path) == include_root \/ Len(path) # 1

\* a faulty variant of rollup_visit: a part that already has a breakdown
\* entry is not entered again
rollup_visit_once(catalog, attribute_key, include_root, item, acc) ==
    LET part == PartGet(catalog, item.part_number)
        seen == {acc.breakdown[i].part_number : i \in 1..Len(acc.breakdown)}
        raw_value == DictGet(part[1].attributes, attribute_key)
    IN IF ~(include_root \/ Len(item.path) > 1) \/ part = <<>>
          \/ item.part_number \in seen THEN acc
       ELSE IF ~DictHas(part[1].attributes, attribute_key) \/ ~ToFloat(raw_value).ok THEN acc
       ELSE [acc EXCEPT !.total = @ + ToFloat(raw_value).n * item.multiplier,
                        !.breakdown = Append(@, [part_number |-> item.part_number,
                                                 path |-> item.path,
                                                 multiplier |-> item.multiplier,
                                                 attribute_value |-> ToFloat(raw_value).n,
                                                 contribution |->
                                                     ToFloat(raw_value).n * item.multiplier])]

\* the body of the while loop of rollup_numeric_attribute up to the for
\* loop: acc = [total, breakdown, warnings] after visiting item
rollup_visit(catalog, attribute_key, include_root, item, acc) ==
    LET part == PartGet(catalog, item.part_number)
        raw_value == IF DictHas(part[1].attributes, attribute_key)
                         THEN DictGet(part[1].attributes, attribute_key)
                         ELSE PyNone
        numeric_value == ToFloat(raw_value)
        contribution == numeric_value.n * item.multiplier
    IN IF ~evaluate_here(include_root, item.path) THEN acc
       ELSE IF part = <<>>
           THEN [acc EXCEPT !.warnings =
                    AddWarning(@, "Part '" \o item.part_number \o "' is missing from catalog")]
       ELSE IF raw_value = PyNone
           THEN [acc EXCEPT !.warnings =
                    AddWarning(@, "Part '" \o item.part_number \o "' is missing attribute '"
                                      \o attribute_key \o "'")]
       ELSE IF ~numeric_value.ok
           THEN [acc EXCEPT !.warnings =
                    AddWarning(@, "Part '" \o item.part_number \o "' has non-numeric '"
                                      \o attribute_key \o "': " \o ValueText(raw_value))]
       ELSE [acc EXCEPT !.total = @ + contribution,
                        !.breakdown = Append(@, [part_number |-> item.part_number,
                                                 path |-> item.path,
                                                 multiplier |-> item.multiplier,
                                                 attribute_value |-> numeric_value.n,
                                                 contribution |-> contribution])]

\* the while loop of rollup_numeric_attribute; queue items are
\* [part_number, multiplier, path]
RECURSIVE rollup_loop(_, _, _, _, _, _)
rollup_loop(catalog, store, attribute_key, include_root, queue, acc) ==
    IF queue = <<>> THEN acc
    ELSE LET item == Head(queue)
             children == find_children(store, item.part_number)
             pushed == [i \in 1..Len(children) |->
                           [part_number |-> children[i].child_part_number,
                            multiplier |-> child_multiplier(item.multiplier, children[i].qty),
                            path |-> Append(item.path, children[i].child_part_number)]]
         IN rollup_loop(catalog, store, attribute_key, include_root,
                        Tail(queue) \o pushed,
                        rollup_visit(catalog, attribute_key, include_root, item, acc))

\* the sort key (path, part_number): a path ends in 0, below every part number
BreakdownSortKey(entry) ==
    [i \in 1..Len(entry.path) |-> StrOrd(entry.path[i])]
        \o <<0, StrOrd(entry.part_number)>>

\* the result rollup_numeric_attribute returns once its loop has ended with
\* the accumulators done
rollup_result(root_part_number, attribute_key, include_root, done) ==
    ok_result("rollup_numeric_attribute",
        [root_part_number |-> root_part_number,
         attribute_key |-> attribute_key,
         include_root |-> include_root,
         total |-> done.total,
         breakdown |-> SortByKey(done.breakdown,
                          [i \in 1..Len(done.breakdown) |->
                              BreakdownSortKey(done.breakdown[i])])],
        done.warnings)

rollup_numeric_attribute(catalog, store, root_part_number, attribute_key, include_root) ==
    LET op == "rollup_numeric_attribute"
        done == rollup_loop(catalog, store, attribute_key, include_root,
                    <<[part_number |-> root_part_number, multiplier |-> 1,
                       path |-> <<root_part_number>>]>>,
                    [total |-> 0, breakdown |-> <<>>, warnings |-> <<>>])
    IN IF root_part_number = "" THEN err_result(op, <<"root_part_number is required">>)
       ELSE IF attribute_key = "" THEN err_result(op, <<"attribute_key is required">>)
       ELSE rollup_result(root_part_number, attribute_key, include_root, done)

RollupNumericAttribute(root_part_number, attribute_key, include_root) ==
    /\ last' = rollup_numeric_attribute(parts, rels, root_part_number, attribute_key,
                                        include_root)
    /\ UNCHANGED <<parts, rels, snapshots, calls>>

\* the maturity factor applied to a part with a numeric unit weight:
\* [factor, warnings], the stored value unless it is missing, None,
\* non-numeric or non-positive
maturity_factor_of(part, maturity_factor_key, default_maturity) ==
    LET raw_maturity == IF DictHas(part.attributes, maturity_factor_key)
                               /\ DictGet(part.attributes, maturity_factor_key) # PyNone
                            THEN DictGet(part.attributes, maturity_factor_key)
                            ELSE PyFloat(default_maturity)
        tail == "': " \o ValueText(raw_maturity) \o "; using default "
                    \o ValueText(PyFloat(default_maturity))
    IN IF ~ToFloat(raw_maturity).ok
           THEN [factor |-> default_maturity,
                 warnings |-> <<"Part '" \o part.part_number \o "' has non-numeric '"
                                   \o maturity_factor_key \o tail>>]
       ELSE IF ToFloat(raw_maturity).n <= 0
           THEN [factor |-> default_maturity,
                 warnings |-> <<"Part '" \o part.part_number \o "' has non-positive '"
                                   \o maturity_factor_key \o tail>>]
       ELSE [factor |-> ToFloat(raw_maturity).n, warnings |-> <<>>]

\* a faulty variant of add_unresolved: an entry per occurrence
add_unresolved_every(unresolved_nodes, part_number, path, reason) ==
    Append(unresolved_nodes,
           [part_number |-> part_number, path |-> path, reason |-> reason])

\* add_unresolved: one entry per (part_number, reason)
add_unresolved(unresolved_nodes, part_number, path, reason) ==
    IF \E i \in 1..Len(unresolved_nodes) :
           /\ unresolved_nodes[i].part_number = part_number
           /\ unresolved_nodes[i].reason = reason
        THEN unresolved_nodes
    ELSE Append(unresolved_nodes,
                [part_number |-> part_number, path |-> path, reason |-> reason])

\* the override branch of the while loop of rollup_weight_with_maturity: the
\* part's weight enters total and breakdown
maturity_contribute(part, maturity, item, acc) ==
    LET unit_weight == ToFloat(DictGet(part.attributes, "unit_weight")).n
    IN [acc EXCEPT !.total = @ + (unit_weight * maturity.factor) * item.multiplier,
                   !.warnings = IF maturity.warnings = <<>> THEN @
                                ELSE AddWarning(@, maturity.warnings[1]),
                   !.breakdown =
                       Append(@, [part_number |-> item.part_number,
                                  path |-> item.path,
                                  multiplier |-> item.multiplier,
                                  unit_weight |-> unit_weight,
                                  maturity_factor |-> maturity.factor,
                                  effective_unit_weight |-> unit_weight * maturity.factor,
                                  contribution |->
                                      (unit_weight * maturity.factor) * item.multiplier,
                                  override_applied |-> TRUE]),
                   !.overridden = TRUE]

\* the body of the while loop of rollup_weight_with_maturity up to the final
\* for loop; acc.overridden tells whether the override's continue was taken
maturity_visit(catalog, maturity_factor_key, default_maturity, include_root, item, childless, acc) ==
    LET part == PartGet(catalog, item.part_number)
        in_scope == evaluate_here(include_root, item.path)
        raw_unit_weight == IF DictHas(part[1].attributes, "unit_weight")
                              THEN DictGet(part[1].attributes, "unit_weight")
                              ELSE PyNone
        clear == [acc EXCEPT !.overridden = FALSE]
    IN IF part = <<>>
           THEN [clear EXCEPT
                    !.warnings = AddWarning(@, "Part '" \o item.part_number
                                                   \o "' is missing from catalog"),
                    !.unresolved_nodes =
                        IF childless
                            THEN add_unresolved(@, item.part_number, item.path,
                                     "missing part and no children to continue rollup")
                            ELSE @]
       ELSE IF raw_unit_weight # PyNone /\ in_scope
           THEN IF ~ToFloat(raw_unit_weight).ok
                    THEN [clear EXCEPT
                             !.warnings = AddWarning(@, "Part '" \o item.part_number
                                              \o "' has non-numeric 'unit_weight': "
                                              \o ValueText(raw_unit_weight))]
                ELSE maturity_contribute(part[1],
                         maturity_factor_of(part[1], maturity_factor_key, default_maturity),
                         item, acc)
       ELSE IF in_scope /\ childless
           THEN [clear EXCEPT
                    !.warnings = AddWarning(@, "Part '" \o item.part_number
                                     \o "' has no 'unit_weight' and no children to derive weight"),
                    !.unresolved_nodes = add_unresolved(@, item.part_number, item.path,
                                             "no unit weight and no children")]
       ELSE clear

\* a faulty variant of maturity_next_queue: the children of a part whose
\* unit weight was applied are queued as well
maturity_next_queue_descends(queue, pushed, overridden) == Tail(queue) \o pushed

\* the queue after one iteration: the override's continue skips the for loop
\* that appends the children
maturity_next_queue(queue, pushed, overridden) ==
    IF overridden THEN Tail(queue) ELSE Tail(queue) \o pushed

\* the while loop of rollup_weight_with_maturity
RECURSIVE maturity_loop(_, _, _, _, _, _, _)
maturity_loop(catalog, store, maturity_factor_key, default_maturity, include_root, queue, acc) ==
    IF queue = <<>> THEN acc
    ELSE LET item == Head(queue)
             children == find_children(store, item.part_number)
             pushed == [i \in 1..Len(children) |->
                           [part_number |-> children[i].child_part_number,
                            multiplier |-> child_multiplier(item.multiplier, children[i].qty),
                            path |-> Append(item.path, children[i].child_part_number)]]
             visited == maturity_visit(catalog, maturity_factor_key, default_maturity,
                                       include_root, item, children = <<>>, acc)
         IN maturity_loop(catalog, store, maturity_factor_key, default_maturity,
                          include_root,
                          maturity_next_queue(queue, pushed, visited.overridden), visited)

\* a faulty variant of part_total_rows: the rows in part number order
part_total_rows_by_number(breakdown) ==
    LET inBreakdown(pn) == \E i \in 1..Len(breakdown) : breakdown[i].part_number = pn
        numbers == SelectSeq(PartSeq, inBreakdown)
        ofPart(pn) == LET isOf(e) == e.part_number = pn IN SelectSeq(breakdown, isOf)
        RECURSIVE Sum(_)
        Sum(entries) == IF entries = <<>> THEN 0
                        ELSE Head(entries).contribution + Sum(Tail(entries))
    IN [i \in 1..Len(numbers) |->
           [part_number |-> numbers[i],
            total_contribution |-> Sum(ofPart(numbers[i])),
            occurrences |-> Len(ofPart(numbers[i]))]]

\* part_totals: one row per part of the breakdown, sorted by
\* (-total_contribution, part_number)
part_total_rows(breakdown) ==
    LET inBreakdown(pn) == \E i \in 1..Len(breakdown) : breakdown[i].part_number = pn
        numbers == SelectSeq(PartSeq, inBreakdown)
        ofPart(pn) == LET isOf(e) == e.part_number = pn IN SelectSeq(breakdown, isOf)
        RECURSIVE Sum(_)
        Sum(entries) == IF entries = <<>> THEN 0
                        ELSE Head(entries).contribution + Sum(Tail(entries))
        rows == [i \in 1..Len(numbers) |->
                    [part_number |-> numbers[i],
                     total_contribution |-> Sum(ofPart(numbers[i])),
                     occurrences |-> Len(ofPart(numbers[i]))]]
    IN SortByKey(rows, [i \in 1..Len(rows) |->
                           <<0 - rows[i].total_contribution, StrOrd(rows[i].part_number)>>])

\* the result of rollup_weight_with_maturity once the loop is done
maturity_result(root_part_number, maturity_factor_key, default_maturity, include_root, top_n, done) ==
    LET rows == part_total_rows(done.breakdown)
    IN ok_result("rollup_weight_with_maturity",
           [root_part_number |-> root_part_number,
            unit_weight_key |-> "unit_weight",
            maturity_factor_key |-> maturity_factor_key,
            default_maturity_factor |-> default_maturity,
            include_root |-> include_root,
            total |-> done.total,
            breakdown |-> SortByKey(done.breakdown,
                              [i \in 1..Len(done.breakdown) |->
                                  BreakdownSortKey(done.breakdown[i])]),
            part_totals |-> rows,
            top_contributors |-> SubSeq(rows, 1, IF top_n < Len(rows) THEN top_n
                                                  ELSE Len(rows)),
            unresolved_nodes |-> done.unresolved_nodes],
           done.warnings)

\* rollup_weight_with_maturity with unit_weight_key = "unit_weight"
rollup_weight_with_maturity(catalog, store, root_part_number, maturity_factor_key, default_maturity, include_root, top_n) ==
    LET op == "rollup_weight_with_maturity"
    IN IF root_part_number = "" THEN err_result(op, <<"root_part_number is required">>)
       ELSE IF maturity_factor_key = ""
           THEN err_result(op, <<"maturity_factor_key is required">>)
       ELSE IF top_n <= 0 THEN err_result(op, <<"top_n must be > 0">>)
       ELSE IF default_maturity <= 0
           THEN err_result(op, <<"default_maturity_factor must be > 0">>)
       ELSE maturity_result(root_part_number, maturity_factor_key, default_maturity,
                include_root, top_n,
                maturity_loop(catalog, store, maturity_factor_key, default_maturity,
                    include_root,
                    <<[part_number |-> root_part_number, multiplier |-> 1,
                       path |-> <<root_part_number>>]>>,
                    [total |-> 0, breakdown |-> <<>>, warnings |-> <<>>,
                     unresolved_nodes |-> <<>>, overridden |-> FALSE]))

RollupWeightWithMaturity(root_part_number, default_maturity, include_root, top_n) ==
    /\ last' = rollup_weight_with_maturity(parts, rels, root_part_number,
                   "maturity_factor", default_maturity, include_root, top_n)
               @@ [args |-> [top_n |-> top_n]]
    /\ UNCHANGED <<parts, rels, snapshots, calls>>

\* the queue entries of the children of item: the for loop that ends an
\* iteration of either rollup
queue_children(item, children) ==
    [i \in 1..Len(children) |->
        [part_number |-> children[i].child_part_number,
         multiplier |-> child_multiplier(item.multiplier, children[i].qty),
         path |-> Append(item.path, children[i].child_part_number)]]

\* the rollups iteration by iteration.  A call begins with the root in its
\* queue; kind is the operation, a its arguments
RollupBegin(p, kind, a) ==
    /\ calls[p] = <<>>
    /\ a.root_part_number # ""
    /\ calls' = [calls EXCEPT ![p] =
                    <<[op |-> kind, args |-> a,
                       queue |-> <<[part_number |-> a.root_part_number, multiplier |-> 1,
                                    path |-> <<a.root_part_number>>]>>,
                       acc |-> IF kind = "rollup_numeric_attribute"
                                   THEN [total |-> 0, breakdown |-> <<>>, warnings |-> <<>>]
                               ELSE [total |-> 0, breakdown |-> <<>>, warnings |-> <<>>,
                                     unresolved_nodes |-> <<>>, overridden |-> FALSE]]>>]
    /\ UNCHANGED <<parts, rels, snapshots, last>>

\* one iteration of the while loop of rollup_numeric_attribute
RollupIterate(p) ==
    /\ calls[p] # <<>>
    /\ calls[p][1].op = "rollup_numeric_attribute"
    /\ calls[p][1].queue # <<>>
    /\ LET c == calls[p][1]
           item == Head(c.queue)
       IN calls' = [calls EXCEPT
              ![p][1].queue = Tail(c.queue)
                                  \o queue_children(item, find_children(rels, item.part_number)),
              ![p][1].acc = rollup_visit(parts, "weight_kg", c.args.include_root, item, c.acc)]
    /\ UNCHANGED <<parts, rels, snapshots, last>>

\* one iteration of the while loop of rollup_weight_with_maturity
MaturityIterate(p) ==
    /\ calls[p] # <<>>
    /\ calls[p][1].op = "rollup_weight_with_maturity"
    /\ calls[p][1].queue # <<>>
    /\ LET c == calls[p][1]
           item == Head(c.queue)
           children == find_children(rels, item.part_number)
           visited == maturity_visit(parts, "maturity_factor", 1, c.args.include_root,
                                     item, children = <<>>, c.acc)
       IN calls' = [calls EXCEPT
              ![p][1].queue = maturity_next_queue(c.queue, queue_children(item, children),
                                                  visited.overridden),
              ![p][1].acc = visited]
    /\ UNCHANGED <<parts, rels, snapshots, last>>

\* the queue is empty: the loop ends and the call returns
RollupReturn(p) ==
    /\ calls[p] # <<>>
    /\ calls[p][1].op \in {"rollup_numeric_attribute", "rollup_weight_with_maturity"}
    /\ calls[p][1].queue = <<>>
    /\ last' = IF calls[p][1].op = "rollup_numeric_attribute"
                   THEN rollup_result(calls[p][1].args.root_part_number, "weight_kg",
                            calls[p][1].args.include_root, calls[p][1].acc)
               ELSE maturity_result(calls[p][1].args.root_part_number, "maturity_factor", 1,
                        calls[p][1].args.include_root, 10, calls[p][1].acc)
    /\ calls' = [calls EXCEPT ![p] = <<>>]
    /\ UNCHANGED <<parts, rels, snapshots>>

(***************************************************************************)
(* Spec: the structure engine.  Serialized add_or_update_relationship and  *)
(* delete_relationship calls on three part numbers and three relationship  *)
(* ids, starting from the empty data directory (no part is catalogued, so  *)
(* a relationship is stored only with allow_dangling).                     *)
(***************************************************************************)
PartNumbers == {"A", "B", "C"}
RelIds == {"R1", "R2", "R3"}
FreshRelIds(store) == {id \in RelIds : RelGet(store, id) = <<>>}

Init ==
    /\ parts = <<>>
    /\ rels = <<>>
    /\ snapshots = <<>>
    /\ last = [op |-> "init", ok |-> TRUE, data |-> <<>>, errors |-> <<>>, warnings |-> <<>>]
    /\ calls = [p \in Callers |-> <<>>]

StructAddRelationship ==
    \E parent \in PartNumbers, q \in 1..MaxQty, rel_id \in RelIds \cup {""} :
        \E child \in PartNumbers \ {parent},
           fresh \in (IF rel_id = "" THEN FreshRelIds(rels) ELSE {rel_id}) :
            AddOrUpdateRelationship(RelArgs(parent, child, PyInt(q), rel_id, fresh,
                                            <<>>, 1, TRUE, TRUE))

\* calls that fail validation, or name a part missing from the catalog
\* without allow_dangling
InvalidRelationshipInputs ==
    {<<"", "A", PyInt(1), TRUE>>, <<"A", "", PyInt(1), TRUE>>,
     <<"A", "A", PyInt(1), TRUE>>, <<"A", "B", PyInt(0), TRUE>>,
     <<"A", "B", PyStr("x"), TRUE>>, <<"A", "B", PyNone, TRUE>>,
     <<"A", "B", PyInt(1), FALSE>>}

StructAddInvalidRelationship ==
    \E in \in InvalidRelationshipInputs :
        AddOrUpdateRelationship(RelArgs(in[1], in[2], in[3], "R1", "R1", <<>>, 1,
                                        in[4], TRUE))

StructDeleteRelationship ==
    \E rel_id \in RelIds \cup {""} :
        DeleteRelationship(rel_id)

Next ==
    \/ StructAddRelationship
    \/ StructAddInvalidRelationship
    \/ StructDeleteRelationship

Spec == Init /\ [][Next]_vars

(***************************************************************************)
(* The parent->child graph of a relationship list.                         *)
(***************************************************************************)
Edges(relationships) ==
    {<<relationships[i].parent_part_number, relationships[i].child_part_number>> :
        i \in 1..Len(relationships)}

Successors(E, S) == {e[2] : e \in {x \in E : x[1] \in S}}

\* the nodes reached from S along one or more edges of E
RECURSIVE ReachedFrom(_, _, _)
ReachedFrom(E, frontier, seen) ==
    LET next == Successors(E, frontier) \ seen
    IN IF next = {} THEN seen ELSE ReachedFrom(E, next, seen \cup next)

Descendants(E, n) == ReachedFrom(E, {n}, {})

HasCycle(E) == \E e \in E : e[1] \in Descendants(E, e[1])

CycleRejected(result) ==
    /\ result.op = "add_or_update_relationship"
    /\ "cycle" \in DOMAIN result

\* the hypothetical edge set of a call: the stored relationships without the
\* prior record of the candidate's rel_id, plus the candidate
HypotheticalEdges(store, candidate) ==
    LET isOther(r) == r.rel_id # candidate.rel_id
    IN Edges(SelectSeq(store, isOther))
           \cup {<<candidate.parent_part_number, candidate.child_part_number>>}

\* C1: in every state reached by serialized add_or_update_relationship and
\* delete_relationship calls the parent->child graph of the stored
\* relationships has no cycle.
C1_Acyclic == ~HasCycle(Edges(rels))

\* three relationships stored, the last of them by an update of an existing rel_id
C1_Witness ==
    /\ Len(rels) = 3
    /\ last.op = "add_or_update_relationship"
    /\ last.ok
    /\ ~last.data.created
    /\ Edges(rels) = {<<"A", "B">>, <<"B", "C">>, <<"A", "C">>}

\* C2: a call rejected because the candidate closes a cycle returns ok=false
\* and leaves the stored relationships exactly as they were, also when it
\* names an existing rel_id.
C2_RejectionWritesNothing ==
    [][CycleRejected(last') => (~last'.ok /\ last'.errors # <<>> /\ rels' = rels)]_vars

\* A->B and B->C stored; the update of the third, existing rel_id to C->A is rejected
C2_Witness ==
    /\ CycleRejected(last)
    /\ RelGet(rels, last.candidate.rel_id) # <<>>
    /\ last.candidate.parent_part_number = "C"
    /\ last.candidate.child_part_number = "A"
    /\ {<<"A", "B">>, <<"B", "C">>} \subseteq Edges(rels)

IsRotationOf(path, cycle) ==
    /\ Len(path) = Len(cycle)
    /\ \E k \in 0..(Len(cycle) - 2) :
          \A i \in 1..Len(cycle) :
              path[i] = cycle[((i - 1 + k) % (Len(cycle) - 1)) + 1]

\* C3: the cycle path of a rejected call is a closed path of the hypothetical
\* edge set (first = last, every consecutive pair an edge) through the
\* candidate edge; for stored A->B, B->C and candidate C->A it is a rotation
\* of [C, A, B, C].  (The rejected call left rels as it found it, so the
\* hypothetical set is the one the call examined.)
C3_CyclePathIsClosedPath ==
    CycleRejected(last) =>
        LET cycle == last.cycle
            candidate == last.candidate
            hyp == HypotheticalEdges(rels, candidate)
        IN /\ Len(cycle) >= 2
           /\ cycle[1] = cycle[Len(cycle)]
           /\ \A i \in 1..(Len(cycle) - 1) : <<cycle[i], cycle[i + 1]>> \in hyp
           /\ \E i \in 1..(Len(cycle) - 1) :
                 <<cycle[i], cycle[i + 1]>> =
                     <<candidate.parent_part_number, candidate.child_part_number>>
           /\ (hyp = {<<"A", "B">>, <<"B", "C">>, <<"C", "A">>}
                   => IsRotationOf(cycle, <<"C", "A", "B", "C">>))

\* a rejection whose cycle does not start at the first node of the search:
\* A->B and B->C stored, C->B attempted
C3_Witness ==
    /\ CycleRejected(last)
    /\ last.cycle = <<"B", "C", "B">>
    /\ Edges(rels) = {<<"A", "B">>, <<"B", "C">>}

\* the rejection of C->A over stored A->B, B->C
C3_WitnessExample ==
    /\ CycleRejected(last)
    /\ last.cycle = <<"A", "B", "C", "A">>
    /\ Len(rels) = 2

(***************************************************************************)
(* SpecSubgraph: get_subgraph on four parts.  The relationship calls pass  *)
(* the rows of SubgraphRows (the diamond A->B, A->C, B->D, C->D, a         *)
(* parallel edge, an edge to an uncatalogued part, a cycle attempt), the   *)
(* catalog calls add the parts of SubgraphParts.                           *)
(***************************************************************************)
SubgraphParts == {"A", "B", "C", "D"}

SubgraphRows ==
    {<<"R1", "A", "B">>, <<"R2", "A", "C">>, <<"R2", "A", "B">>,
     <<"R3", "B", "D">>, <<"R3", "D", "E">>, <<"R4", "C", "D">>, <<"R4", "D", "A">>}

SubAddPart ==
    \E pn \in SubgraphParts :
        AddOrUpdatePart(pn, "Part", <<>>, 1, TRUE)

SubAddRelationship ==
    \E row \in SubgraphRows :
        AddOrUpdateRelationship(RelArgs(row[2], row[3], PyInt(1), row[1], row[1],
                                        <<>>, 1, TRUE, TRUE))

SubDeleteRelationship ==
    \E row \in SubgraphRows :
        DeleteRelationship(row[1])

SubGetSubgraph ==
    \E root \in SubgraphParts :
        GetSubgraph(root)

NextSubgraph ==
    \/ SubAddPart
    \/ SubAddRelationship
    \/ SubDeleteRelationship
    \/ SubGetSubgraph

SpecSubgraph == Init /\ [][NextSubgraph]_vars

\* the part numbers reached from root along child edges, root included
Reachable(store, root) == {root} \cup Descendants(Edges(store), root)

CatalogNumbers(catalog) == {catalog[i].part_number : i \in 1..Len(catalog)}

\* C9: get_subgraph(root) returns exactly the stored relationships whose
\* parent is reachable from root, each rel_id once, and each reachable
\* catalogued part once; for A->B, A->C, B->D, C->D it returns the parts
\* {A, B, C, D} and exactly 4 relationships.
C9_SubgraphIsReachableEdgeSet ==
    (last.op = "get_subgraph" /\ last.ok) =>
        LET root == last.data.root_part_number
            got == last.data.relationships
            got_parts == last.data.parts
            reach == Reachable(rels, root)
            expected == {r \in SeqToSet(rels) : r.parent_part_number \in reach}
        IN /\ SeqToSet(got) = expected
           /\ Len(got) = Cardinality(expected)
           /\ Cardinality({got[i].rel_id : i \in 1..Len(got)}) = Len(got)
           /\ {got_parts[i].part_number : i \in 1..Len(got_parts)}
                  = reach \cap CatalogNumbers(parts)
           /\ Cardinality({got_parts[i].part_number : i \in 1..Len(got_parts)})
                  = Len(got_parts)
           /\ ((root = "A" /\ Len(rels) = 4 /\ SubgraphParts \subseteq CatalogNumbers(parts)
                /\ Edges(rels) = {<<"A", "B">>, <<"A", "C">>, <<"B", "D">>, <<"C", "D">>})
                   => (/\ {got_parts[i].part_number : i \in 1..Len(got_parts)} = SubgraphParts
                       /\ Len(got) = 4))

\* get_subgraph("A") on the catalogued diamond
C9_Witness ==
    /\ last.op = "get_subgraph"
    /\ last.data.root_part_number = "A"
    /\ Len(last.data.relationships) = 4
    /\ Len(last.data.parts) = 4
    /\ Edges(rels) = {<<"A", "B">>, <<"A", "C">>, <<"B", "D">>, <<"C", "D">>}

(***************************************************************************)
(* SpecSnap: the snapshot engine.  Part A carries the attribute weight_kg  *)
(* as the float 2.0 or as the text "2", relationship R1 is A->B; snapshots *)
(* of the roots A and B are created at the clock readings of SnapTimes,    *)
(* read back and compared.  Every part and relationship call passes        *)
(* last_updated 1.                                                         *)
(***************************************************************************)
SnapValues == {PyFloat(2), PyStr("2")}
SnapTimes == {1, 2}
SnapLabels == {"", "v1"}
SnapRoots == {"A", "B"}
SnapIds == {SnapshotId(t, "a") : t \in SnapTimes}

SnapAddPart ==
    \E v \in SnapValues :
        AddOrUpdatePart("A", "Part", <<<<"weight_kg", v>>>>, 1, TRUE)

SnapDeletePart == DeletePart("A", TRUE)

SnapAddRelationship ==
    AddOrUpdateRelationship(RelArgs("A", "B", PyInt(1), "R1", "R1", <<>>, 1, TRUE, TRUE))

SnapDeleteRelationship == DeleteRelationship("R1")

SnapCreate ==
    \E root \in SnapRoots, label \in SnapLabels, dedupe \in BOOLEAN, created_at \in SnapTimes :
        CreateSnapshot(SnapshotArgs(root, label, dedupe, created_at, "a"))

SnapGet ==
    \E id \in SnapIds :
        GetSnapshot(id)

SnapCompare ==
    \E a \in SnapIds, b \in SnapIds :
        CompareSnapshots(a, b)

NextSnap ==
    \/ SnapAddPart
    \/ SnapDeletePart
    \/ SnapAddRelationship
    \/ SnapDeleteRelationship
    \/ SnapCreate
    \/ SnapGet
    \/ SnapCompare

SpecSnap == Init /\ [][NextSnap]_vars

\* the relationship and part records a snapshot of root would freeze now
NowFrozenRelationships(root) ==
    frozen_relationships(rels, get_subgraph(parts, rels, root).data.relationships)

NowFrozenParts(root) ==
    frozen_parts(parts, reachable_part_numbers(root, NowFrozenRelationships(root)))

\* C4: no step changes or removes a stored snapshot: after every step
\* get_snapshot(id) returns, for every snapshot stored before it, the record
\* that was stored (root, signature, parts, relationships, label), so the set
\* of stored snapshots only grows.
C4_SnapshotsImmutable ==
    [][\A i \in 1..Len(snapshots) :
          get_snapshot(snapshots', snapshots[i].snapshot_id)
              = ok_result("get_snapshot", [snapshot |-> snapshots[i]], <<>>)]_vars

\* get_snapshot returns a stored snapshot whose parts are no longer those of
\* the catalog, and two snapshots are stored
C4_Witness ==
    /\ last.op = "get_snapshot"
    /\ last.ok
    /\ Len(snapshots) = 2
    /\ last.data.snapshot.parts # NowFrozenParts("A")
    /\ last.data.snapshot.parts # <<>>

\* the ids of the stored snapshots of root whose part and relationship
\* records are the ones now reachable from root
UnchangedSince(root) ==
    {snapshots[i].snapshot_id : i \in
        {j \in 1..Len(snapshots) :
            /\ snapshots[j].root_part_number = root
            /\ snapshots[j].parts = NowFrozenParts(root)
            /\ snapshots[j].relationships = NowFrozenRelationships(root)}}

\* C5: a create_snapshot with deduplicate_if_identical=true of a root whose
\* reachable records are unchanged since an earlier snapshot of that root
\* returns that snapshot's id with deduplicated=true and stores nothing.
C5_DedupReturnsUnchangedSnapshot ==
    [][(/\ last'.op = "create_snapshot"
        /\ last'.args.deduplicate_if_identical
        /\ UnchangedSince(last'.args.root_part_number) # {})
          => (/\ last'.ok
              /\ last'.data.deduplicated
              /\ last'.data.snapshot.snapshot_id \in UnchangedSince(last'.args.root_part_number)
              /\ snapshots' = snapshots)]_vars

\* C8: compare_snapshots of two stored snapshots with equal signatures reports
\* empty added, removed and modified collections for parts and relationships
\* and equal=true.
C8_EqualSignaturesEmptyDiff ==
    (last.op = "compare_snapshots" /\ last.ok /\ last.data.signature_equal) =>
        /\ last.data.equal
        /\ last.data.part_changes.added = <<>>
        /\ last.data.part_changes.removed = <<>>
        /\ last.data.part_changes.modified = <<>>
        /\ last.data.relationship_changes.added = <<>>
        /\ last.data.relationship_changes.removed = <<>>
        /\ last.data.relationship_changes.modified = <<>>

(***************************************************************************)
(* SpecSig: build_signature on two BOM states.  A state is a root, part A  *)
(* with the attributes weight_kg and find_no, and relationship R1 = A->B   *)
(* with the attribute weight_kg.  The weight of the part is a CSV cell     *)
(* (parse_csv_value of its text) or a text passed to the service as it is; *)
(* qty and the weight of the relationship are CSV cells.                   *)
(***************************************************************************)
SigRoots == {"A", "B"}
SigWeights == {<<"csv", "2">>, <<"csv", "2.0">>, <<"csv", "2.00">>, <<"csv", "3">>,
               <<"api", "2">>}
SigQtys == {"2", "2.00", "3"}
SigRelWeights == {"2", "2.0"}

SigInputs ==
    [root : SigRoots, weight : SigWeights, swapped : BOOLEAN, qty : SigQtys,
     rel_weight : SigRelWeights]

\* the Part and Relationship objects the input stands for
SigState(in) ==
    LET weight == IF in.weight[1] = "csv" THEN parse_csv_value(in.weight[2])
                  ELSE PyStr(in.weight[2])
        w == <<"weight_kg", weight>>
        f == <<"find_no", PyInt(1)>>
    IN [root_part_number |-> in.root,
        parts |-> <<[part_number |-> "A", name |-> "Part", last_updated |-> 1,
                     attributes |-> IF in.swapped THEN <<f, w>> ELSE <<w, f>>]>>,
        relationships |->
            <<[rel_id |-> "R1", parent_part_number |-> "A", child_part_number |-> "B",
               qty |-> parse_qty(in.qty).n, last_updated |-> 1,
               attributes |-> <<<<"weight_kg", parse_csv_value(in.rel_weight)>>>>]>>]

InitSig ==
    /\ parts = <<>>
    /\ rels = <<>>
    /\ snapshots = <<>>
    /\ last \in {[op |-> "states", in_a |-> x, in_b |-> y, a |-> SigState(x), b |-> SigState(y)] :
                    x \in SigInputs, y \in SigInputs}
    /\ calls = [p \in Callers |-> <<>>]

BuildSignatures ==
    /\ last.op = "states"
    /\ last' = [op |-> "build_signature", in_a |-> last.in_a, in_b |-> last.in_b,
                a |-> last.a, b |-> last.b,
                payload_a |-> canonical_snapshot_payload(last.a.root_part_number,
                                  last.a.parts, last.a.relationships),
                payload_b |-> canonical_snapshot_payload(last.b.root_part_number,
                                  last.b.parts, last.b.relationships),
                signature_a |-> build_signature(last.a.root_part_number,
                                    last.a.parts, last.a.relationships),
                signature_b |-> build_signature(last.b.root_part_number,
                                    last.b.parts, last.b.relationships)]
    /\ UNCHANGED <<parts, rels, snapshots, calls>>

NextSig == BuildSignatures

SpecSig == InitSig /\ [][NextSig]_vars

\* two records agree up to the order of their attribute keys and the
\* spelling of their numbers (2 = 2.0; a number never equals a text)
SamePart(p, q) ==
    /\ p.part_number = q.part_number
    /\ p.name = q.name
    /\ p.last_updated = q.last_updated
    /\ DictEq(p.attributes, q.attributes)

SameRelationship(r, s) ==
    /\ r.rel_id = s.rel_id
    /\ r.parent_part_number = s.parent_part_number
    /\ r.child_part_number = s.child_part_number
    /\ r.qty = s.qty
    /\ r.last_updated = s.last_updated
    /\ DictEq(r.attributes, s.attributes)

LogicallyIdentical(a, b) ==
    /\ a.root_part_number = b.root_part_number
    /\ Len(a.parts) = Len(b.parts)
    /\ \A i \in 1..Len(a.parts) : SamePart(a.parts[i], b.parts[i])
    /\ Len(a.relationships) = Len(b.relationships)
    /\ \A i \in 1..Len(a.relationships) :
          SameRelationship(a.relationships[i], b.relationships[i])

\* C6: two BOM states that differ only in the order of attribute keys or in
\* the spelling of a number (2, 2.0, 2.00), in part attributes, relationship
\* attributes or qty, have the same signature.
C6_SignatureIgnoresSpelling ==
    (last.op = "build_signature" /\ LogicallyIdentical(last.a, last.b))
        => last.signature_a = last.signature_b

\* C7: two BOM states that differ semantically (root, a scalar field, an
\* attribute value, a number against a text) have different canonical
\* payloads and different signatures.
C7_DifferentStatesDifferentSignatures ==
    (last.op = "build_signature" /\ ~LogicallyIdentical(last.a, last.b))
        => (/\ last.payload_a # last.payload_b
            /\ last.signature_a # last.signature_b)

(***************************************************************************)
(* SpecRollup: rollup_numeric_attribute of weight_kg over the parts A, B,  *)
(* C.  The catalog calls pass the rows of RollupPartRows (a number, a      *)
(* numeral held as text, a text that is no number, None), the relationship *)
(* calls the rows of RollupRelRows: A->B qty 2, B->C qty 3 and the         *)
(* variations on them.                                                     *)
(***************************************************************************)
RollupRoots == {"A", "B"}

RollupPartRows ==
    {<<"A", PyInt(10)>>, <<"B", PyInt(2)>>, <<"B", PyStr("x")>>,
     <<"C", PyInt(1)>>, <<"C", PyStr("3")>>, <<"C", PyNone>>}

RollupRelRows ==
    {<<"R1", "A", "B", PyInt(2)>>, <<"R1", "A", "B", PyInt(1)>>,
     <<"R2", "B", "C", PyInt(3)>>, <<"R3", "A", "C", PyInt(2)>>,
     <<"R3", "A", "B", PyInt(3)>>}

RollupAddPart ==
    \E row \in RollupPartRows :
        AddOrUpdatePart(row[1], "Part", <<<<"weight_kg", row[2]>>>>, 1, TRUE)

RollupAddRelationship ==
    \E row \in RollupRelRows :
        AddOrUpdateRelationship(RelArgs(row[2], row[3], row[4], row[1], row[1],
                                        <<>>, 1, TRUE, TRUE))

RollupDeleteRelationship ==
    \E row \in RollupRelRows :
        DeleteRelationship(row[1])

RollupRun ==
    \E root \in RollupRoots, include_root \in BOOLEAN :
        RollupNumericAttribute(root, "weight_kg", include_root)

NextRollup ==
    \/ RollupAddPart
    \/ RollupAddRelationship
    \/ RollupDeleteRelationship
    \/ RollupRun

SpecRollup == Init /\ [][NextRollup]_vars

\* the products of the qty along the chains of stored relationships that
\* follow path (one chain unless edges are parallel); 1 for a path of one part
RECURSIVE PathProducts(_, _)
PathProducts(store, path) ==
    IF Len(path) <= 1 THEN {1}
    ELSE LET n == Len(path)
             steps == {i \in 1..Len(store) :
                          /\ store[i].parent_part_number = path[n - 1]
                          /\ store[i].child_part_number = path[n]}
         IN {m * store[i].qty : m \in PathProducts(store, SubSeq(path, 1, n - 1)),
                                i \in steps}

RECURSIVE SumContributions(_)
SumContributions(breakdown) ==
    IF breakdown = <<>> THEN 0
    ELSE Head(breakdown).contribution + SumContributions(Tail(breakdown))

\* C10: in rollup_numeric_attribute every breakdown entry's multiplier is the
\* product of the qty along its path from the root (1 for the root), its
\* contribution is attribute_value x multiplier, and total is the sum of the
\* contributions; A->B qty 2, B->C qty 3, C.weight=1 gives C a contribution
\* of 6.
C10_RollupIsPathMultiplicative ==
    (last.op = "rollup_numeric_attribute" /\ last.ok) =>
        LET breakdown == last.data.breakdown
        IN /\ \A i \in 1..Len(breakdown) :
                 LET e == breakdown[i]
                 IN /\ e.path[1] = last.data.root_part_number
                    /\ e.path[Len(e.path)] = e.part_number
                    /\ e.multiplier \in PathProducts(rels, e.path)
                    /\ (Len(e.path) = 1 => e.multiplier = 1)
                    /\ e.attribute_value =
                           ToFloat(DictGet(PartGet(parts, e.part_number)[1].attributes,
                                           last.data.attribute_key)).n
                    /\ e.contribution = e.attribute_value * e.multiplier
           /\ last.data.total = SumContributions(breakdown)
           /\ \A i \in 1..Len(breakdown) :
                 (/\ breakdown[i].path = <<"A", "B", "C">>
                  /\ breakdown[i].attribute_value = 1
                  /\ PathProducts(rels, <<"A", "B", "C">>) = {6})
                     => breakdown[i].contribution = 6

\* the rollup from A over A->B qty 2, B->C qty 3 with C.weight_kg = 1
C10_Witness ==
    /\ last.op = "rollup_numeric_attribute"
    /\ last.ok
    /\ \E i \in 1..Len(rels) : /\ rels[i].parent_part_number = "A"
                               /\ rels[i].child_part_number = "B" /\ rels[i].qty = 2
    /\ \E i \in 1..Len(rels) : /\ rels[i].parent_part_number = "B"
                               /\ rels[i].child_part_number = "C" /\ rels[i].qty = 3
    /\ \E i \in 1..Len(last.data.breakdown) :
          /\ last.data.breakdown[i].path = <<"A", "B", "C">>
          /\ last.data.breakdown[i].attribute_value = 1
          /\ last.data.breakdown[i].multiplier = 6
          /\ last.data.breakdown[i].contribution = 6
    /\ Len(last.data.breakdown) >= 3

\* the chains of stored relationships that start at node, as sequences of
\* store positions; the empty chain is the node itself
RECURSIVE ChainsFrom(_, _)
ChainsFrom(store, node) ==
    {<<>>} \cup
    UNION {{<<i>> \o c : c \in ChainsFrom(store, store[i].child_part_number)} :
              i \in {j \in 1..Len(store) : store[j].parent_part_number = node}}

ChainEnd(store, root, chain) ==
    IF chain = <<>> THEN root ELSE store[chain[Len(chain)]].child_part_number

RECURSIVE ChainProduct(_, _)
ChainProduct(store, chain) ==
    IF chain = <<>> THEN 1 ELSE store[Head(chain)].qty * ChainProduct(store, Tail(chain))

\* the part has a value under key that float() accepts
HasNumeric(catalog, pn, key) ==
    /\ PartExists(catalog, pn)
    /\ DictHas(PartGet(catalog, pn)[1].attributes, key)
    /\ ToFloat(DictGet(PartGet(catalog, pn)[1].attributes, key)).ok

\* the chains a rollup result answers for: every chain from its root, the
\* empty one only with include_root
RollupChains(result) ==
    {c \in ChainsFrom(rels, result.data.root_part_number) :
        result.data.include_root \/ c # <<>>}

\* C11: rollup_numeric_attribute enters a part once per root-to-part path
\* (parallel relationships are distinct paths): a part with a numeric
\* attribute reachable by k paths has k breakdown entries, and for every
\* multiplier as many entries as there are paths with that product.
C11_OneEntryPerPath ==
    (last.op = "rollup_numeric_attribute" /\ last.ok) =>
        LET breakdown == last.data.breakdown
            root == last.data.root_part_number
            chains == RollupChains(last)
        IN \A pn \in {root} \cup RelNodes(rels) :
              IF HasNumeric(parts, pn, last.data.attribute_key)
                  THEN \A m \in {0} \cup {ChainProduct(rels, c) : c \in chains} :
                          Cardinality({i \in 1..Len(breakdown) :
                              /\ breakdown[i].part_number = pn
                              /\ (m = 0 \/ breakdown[i].multiplier = m)})
                          = Cardinality({c \in chains :
                              /\ ChainEnd(rels, root, c) = pn
                              /\ (m = 0 \/ ChainProduct(rels, c) = m)})
              ELSE \A i \in 1..Len(breakdown) : breakdown[i].part_number # pn

\* C is reached from A by A->B->C and by A->C: two entries, two multipliers
C11_Witness ==
    /\ last.op = "rollup_numeric_attribute"
    /\ last.ok
    /\ last.data.root_part_number = "A"
    /\ Cardinality({i \in 1..Len(last.data.breakdown) :
           last.data.breakdown[i].part_number = "C"}) = 2
    /\ Cardinality({last.data.breakdown[i].multiplier : i \in
           {j \in 1..Len(last.data.breakdown) :
               last.data.breakdown[j].part_number = "C"}}) = 2

(***************************************************************************)
(* SpecMaturity: rollup_weight_with_maturity over the parts A, B and D     *)
(* with the relationships A->B, B->D and A->D; a part is stored without a  *)
(* unit weight, with a numeric or a non-numeric one, and with a maturity   *)
(* factor that is positive, zero or not a number.                          *)
(***************************************************************************)
MaturityPartRows ==
    {<<"A", <<>>>>,
     <<"A", <<<<"unit_weight", PyInt(5)>>>>>>,
     <<"B", <<>>>>,
     <<"B", <<<<"unit_weight", PyInt(100)>>, <<"maturity_factor", PyInt(2)>>>>>>,
     <<"B", <<<<"unit_weight", PyInt(100)>>, <<"maturity_factor", PyInt(0)>>>>>>,
     <<"B", <<<<"unit_weight", PyStr("x")>>>>>>,
     <<"B", <<<<"unit_weight", PyInt(12)>>>>>>,
     <<"B", <<<<"unit_weight", PyInt(5)>>>>>>,
     <<"D", <<<<"unit_weight", PyInt(8)>>>>>>,
     <<"D", <<<<"unit_weight", PyInt(8)>>, <<"maturity_factor", PyStr("y")>>>>>>}

MaturityRelRows ==
    {<<"R1", "A", "B", PyInt(2)>>, <<"R2", "B", "D", PyInt(4)>>,
     <<"R3", "A", "D", PyInt(3)>>}

MaturityAddPart ==
    \E row \in MaturityPartRows :
        AddOrUpdatePart(row[1], "Part", row[2], 1, FALSE)

MaturityAddRelationship ==
    \E row \in MaturityRelRows :
        AddOrUpdateRelationship(RelArgs(row[2], row[3], row[4], row[1], row[1],
                                        <<>>, 1, TRUE, TRUE))

MaturityDeleteRelationship ==
    \E row \in MaturityRelRows :
        DeleteRelationship(row[1])

MaturityRun ==
    \E root \in {"A", "B"}, include_root \in BOOLEAN, top_n \in {0, 1, 10} :
        RollupWeightWithMaturity(root, 1, include_root, top_n)

\* rollup_numeric_attribute of the unit weights
MaturityRunNumeric ==
    \E root \in {"A", "B"}, include_root \in BOOLEAN :
        RollupNumericAttribute(root, "unit_weight", include_root)

NextMaturity ==
    \/ MaturityAddPart
    \/ MaturityAddRelationship
    \/ MaturityDeleteRelationship
    \/ MaturityRun
    \/ MaturityRunNumeric

SpecMaturity == Init /\ [][NextMaturity]_vars

\* the part applies its unit weight when visited: it is catalogued, in scope
\* and its unit_weight is numeric
Overrides(catalog, pn, in_scope) ==
    /\ in_scope
    /\ PartExists(catalog, pn)
    /\ DictHas(PartGet(catalog, pn)[1].attributes, "unit_weight")
    /\ ToFloat(DictGet(PartGet(catalog, pn)[1].attributes, "unit_weight")).ok

\* C12: in rollup_weight_with_maturity nothing is visited below an in-scope
\* part with a numeric unit_weight: no breakdown entry and no unresolved node
\* has such a part strictly above it on its path (B.unit_weight = 100 with
\* child D.unit_weight = 8 leaves D's entry under B out), every entry is of a
\* part that applies its weight, and its contribution is
\* unit_weight x maturity_factor x path multiplier.
C12_OverrideStopsDescent ==
    (last.op = "rollup_weight_with_maturity" /\ last.ok) =>
        LET breakdown == last.data.breakdown
            unresolved == last.data.unresolved_nodes
            NoOverrideAbove(path) ==
                \A k \in 1..(Len(path) - 1) :
                    ~Overrides(parts, path[k], last.data.include_root \/ k > 1)
        IN /\ \A i \in 1..Len(breakdown) :
                 LET e == breakdown[i]
                 IN /\ NoOverrideAbove(e.path)
                    /\ Overrides(parts, e.part_number,
                                 last.data.include_root \/ Len(e.path) > 1)
                    /\ e.unit_weight =
                           ToFloat(DictGet(PartGet(parts, e.part_number)[1].attributes,
                                           "unit_weight")).n
                    /\ e.maturity_factor > 0
                    /\ e.multiplier \in PathProducts(rels, e.path)
                    /\ e.contribution = e.unit_weight * e.maturity_factor * e.multiplier
           /\ \A i \in 1..Len(unresolved) : NoOverrideAbove(unresolved[i].path)
           /\ (Overrides(parts, "B", last.data.include_root
                                         \/ last.data.root_part_number # "B")
                  => \A i \in 1..Len(breakdown) :
                         ~(\E k \in 1..(Len(breakdown[i].path) - 1) :
                               breakdown[i].path[k] = "B"))

\* the rollup from A over A->B qty 2 and B->D qty 4 with B.unit_weight = 100,
\* maturity_factor 2 and D.unit_weight = 8: B contributes 400, D nothing
C12_Witness ==
    /\ last.op = "rollup_weight_with_maturity" /\ last.ok
    /\ last.data.root_part_number = "A"
    /\ \E i \in 1..Len(rels) : /\ rels[i].parent_part_number = "B"
                               /\ rels[i].child_part_number = "D"
    /\ Overrides(parts, "D", TRUE)
    /\ \E i \in 1..Len(last.data.breakdown) :
           /\ last.data.breakdown[i].part_number = "B"
           /\ last.data.breakdown[i].contribution = 400
    /\ \A i \in 1..Len(last.data.breakdown) : last.data.breakdown[i].part_number # "D"
    /\ last.data.total = 400

\* the parts along a chain of relationships from root
ChainPath(store, root, chain) ==
    <<root>> \o [i \in 1..Len(chain) |-> store[chain[i]].child_part_number]

\* the order in which the breadth-first traversal reaches two chains: the
\* shorter first, then by the positions of their relationships in the store
ChainBefore(c, d) == Len(c) < Len(d) \/ (Len(c) = Len(d) /\ LexLess(c, d))

\* the warning about a part that has no numeric value under key
RollupWarningOf(catalog, pn, key) ==
    LET head == "Part '" \o pn \o "'"
        attributes == PartGet(catalog, pn)[1].attributes
    IN IF ~PartExists(catalog, pn) THEN head \o " is missing from catalog"
       ELSE IF ~DictHas(attributes, key) \/ DictGet(attributes, key) = PyNone
           THEN head \o " is missing attribute '" \o key \o "'"
       ELSE head \o " has non-numeric '" \o key \o "': "
                \o ValueText(DictGet(attributes, key))

\* C13: a part that is missing from the catalog, lacks the attribute or holds
\* a non-numeric value never fails rollup_numeric_attribute: the result is
\* ok, the part has no breakdown entry and adds nothing to total, its warning
\* is listed once, the warnings stand in the order in which the traversal
\* first met them, and the parts below it are still entered with the
\* multiplier of the whole chain.
C13_WarningsNeverFail ==
    (last.op = "rollup_numeric_attribute") =>
        /\ last.ok
        /\ LET key == last.data.attribute_key
               root == last.data.root_part_number
               chains == RollupChains(last)
               bad == {c \in chains : ~HasNumeric(parts, ChainEnd(rels, root, c), key)}
               warning(c) == RollupWarningOf(parts, ChainEnd(rels, root, c), key)
               warnings == last.warnings
               breakdown == last.data.breakdown
           IN /\ \A i, j \in 1..Len(warnings) : warnings[i] = warnings[j] => i = j
              /\ SeqToSet(warnings) = {warning(c) : c \in bad}
              /\ \A i, j \in 1..Len(warnings) :
                    i < j => \E c \in bad :
                                 /\ warning(c) = warnings[i]
                                 /\ \A d \in bad :
                                        warning(d) = warnings[j] => ChainBefore(c, d)
              /\ \A c \in bad : \A i \in 1..Len(breakdown) :
                    breakdown[i].part_number # ChainEnd(rels, root, c)
              /\ last.data.total = SumContributions(breakdown)
              /\ \A c \in chains :
                    (/\ HasNumeric(parts, ChainEnd(rels, root, c), key)
                     /\ \E k \in 0..(Len(c) - 1) : SubSeq(c, 1, k) \in bad)
                        => \E i \in 1..Len(breakdown) :
                               /\ breakdown[i].path = ChainPath(rels, root, c)
                               /\ breakdown[i].multiplier = ChainProduct(rels, c)

\* the rollup from A over A->B qty 2, B->C qty 3 where A is not catalogued,
\* B holds "x" and C holds 1: two warnings, A's first, and C contributes 6
C13_Witness ==
    /\ last.op = "rollup_numeric_attribute" /\ last.ok
    /\ last.data.root_part_number = "A" /\ last.data.include_root
    /\ ~PartExists(parts, "A")
    /\ Len(last.warnings) = 2
    /\ last.warnings[1] = "Part 'A' is missing from catalog"
    /\ last.warnings[2] = "Part 'B' has non-numeric 'weight_kg': x"
    /\ \E i \in 1..Len(last.data.breakdown) :
           /\ last.data.breakdown[i].path = <<"A", "B", "C">>
           /\ last.data.breakdown[i].multiplier = 6
    /\ last.data.total = 6

(***************************************************************************)
(* SpecDangling: add_or_update_relationship with and without               *)
(* allow_dangling while the parts A and B enter and leave the catalog; C   *)
(* is never catalogued.                                                    *)
(***************************************************************************)
DanglingRelRows ==
    {<<"R1", "A", "B">>, <<"R2", "B", "A">>, <<"R2", "B", "C">>, <<"R3", "C", "A">>}

DanglingArgs ==
    {RelArgs(row[2], row[3], PyInt(1), row[1], row[1], <<>>, 1, allow_dangling, TRUE) :
        row \in DanglingRelRows, allow_dangling \in BOOLEAN}

DanglingAddPart ==
    \E pn \in {"A", "B"} : AddOrUpdatePart(pn, "Part", <<>>, 1, TRUE)

DanglingDeletePart ==
    \E pn \in {"A", "B"} : DeletePart(pn, TRUE)

DanglingAddRelationship ==
    \E a \in DanglingArgs : AddOrUpdateRelationship(a)

DanglingDeleteRelationship ==
    \E row \in DanglingRelRows : DeleteRelationship(row[1])

NextDangling ==
    \/ DanglingAddPart
    \/ DanglingDeletePart
    \/ DanglingAddRelationship
    \/ DanglingDeleteRelationship

SpecDangling == Init /\ [][NextDangling]_vars

\* the endpoints of a call that the catalog does not hold
MissingEndpoints(catalog, a) ==
    {pn \in {a.parent_part_number, a.child_part_number} : ~PartExists(catalog, pn)}

\* C14: add_or_update_relationship with an endpoint absent from the catalog
\* returns ok=false and writes nothing when allow_dangling is false; with
\* allow_dangling it is still cycle-checked and, when no cycle closes, the
\* relationship is stored and the result is ok with one warning naming the
\* missing part(s).
C14_DanglingEndpoints ==
    [][\A a \in DanglingArgs :
          (AddOrUpdateRelationship(a) /\ MissingEndpoints(parts, a) # {}) =>
              IF ~a.allow_dangling
                  THEN ~last'.ok /\ rels' = rels
              ELSE IF HasCycle(HypotheticalEdges(rels, a))
                  THEN ~last'.ok /\ rels' = rels
              ELSE /\ last'.ok
                   /\ RelGet(rels', a.rel_id) # <<>>
                   /\ RelGet(rels', a.rel_id)[1].parent_part_number = a.parent_part_number
                   /\ RelGet(rels', a.rel_id)[1].child_part_number = a.child_part_number
                   /\ last'.warnings =
                          <<"Missing part(s): "
                                \o JoinStr(SortedStrings(MissingEndpoints(parts, a)), ", ")>>
    ]_vars

\* B->C stored with allow_dangling while B is catalogued and C is not
C14_Witness ==
    /\ last.op = "add_or_update_relationship" /\ last.ok
    /\ last.warnings = <<"Missing part(s): C">>
    /\ PartExists(parts, "B")
    /\ RelGet(rels, "R2") # <<>>
    /\ RelGet(rels, "R2")[1].child_part_number = "C"

\* A->B refused without allow_dangling while B is not catalogued, R1 absent
C14_WitnessRefused ==
    /\ last.op = "add_or_update_relationship" /\ ~last.ok
    /\ last.errors = <<"Missing part(s): B",
                       "Set allow_dangling=True to allow storing this relationship">>
    /\ RelGet(rels, "R1") = <<>>

\* the two attribute dicts differ as Python dicts do
AttributesDiffer(old, new) ==
    \/ DictKeys(old) # DictKeys(new)
    \/ \E k \in DictKeys(old) \cap DictKeys(new) : ~PyEq(DictGet(old, k), DictGet(new, k))

\* how many entries of a list carry value v in a field
CountListed(list, field, v) == Cardinality({i \in 1..Len(list) : list[i][field] = v})

\* every key of the two record lists is in exactly the class the claim gives
\* it: added, removed, modified (fields or attributes differ) or unchanged
ClassifiedOnce(changes, before, after, field, fields) ==
    LET keys_a == {before[i][field] : i \in 1..Len(before)}
        keys_b == {after[i][field] : i \in 1..Len(after)}
        rec(list, k) == list[CHOOSE i \in 1..Len(list) : list[i][field] = k]
        differs(k) ==
            \/ \E f \in fields : rec(before, k)[f] # rec(after, k)[f]
            \/ AttributesDiffer(rec(before, k).attributes, rec(after, k).attributes)
    IN \A k \in keys_a \cup keys_b :
          /\ CountListed(changes.added, field, k) = IF k \notin keys_a THEN 1 ELSE 0
          /\ CountListed(changes.removed, field, k) = IF k \notin keys_b THEN 1 ELSE 0
          /\ CountListed(changes.modified, field, k) =
                 IF k \in keys_a \cap keys_b /\ differs(k) THEN 1 ELSE 0

\* the classification half of C15
C15_Classification ==
    (last.op = "compare_snapshots" /\ last.ok) =>
        LET a == SnapshotGet(snapshots, last.data.snapshot_a.snapshot_id)[1]
            b == SnapshotGet(snapshots, last.data.snapshot_b.snapshot_id)[1]
        IN /\ ClassifiedOnce(last.data.part_changes, a.parts, b.parts,
                             "part_number", {"name", "last_updated"})
           /\ ClassifiedOnce(last.data.relationship_changes, a.relationships,
                             b.relationships, "rel_id",
                             {"parent_part_number", "child_part_number", "qty",
                              "last_updated"})

\* C15: compare_snapshots puts every part number and every rel_id of the two
\* snapshots into exactly one class (added, removed, modified when a non-key
\* field or the attributes differ, else unchanged), and two snapshots of a
\* root between which an attribute of a part was changed have
\* signature_equal=false and list that part in part_changes.modified.
C15_DiffClassifiesEveryRecord ==
    (last.op = "compare_snapshots" /\ last.ok) =>
        LET a == SnapshotGet(snapshots, last.data.snapshot_a.snapshot_id)[1]
            b == SnapshotGet(snapshots, last.data.snapshot_b.snapshot_id)[1]
            changed == {pn \in {a.parts[i].part_number : i \in 1..Len(a.parts)}
                                  \cap {b.parts[i].part_number : i \in 1..Len(b.parts)} :
                           AttributesDiffer(PartByNumber(a.parts, pn).attributes,
                                            PartByNumber(b.parts, pn).attributes)}
        IN /\ C15_Classification
           /\ (a.root_part_number = b.root_part_number /\ changed # {}) =>
                  /\ ~last.data.signature_equal
                  /\ \A pn \in changed :
                         CountListed(last.data.part_changes.modified, "part_number", pn) = 1

\* C16: in a compare_snapshots result signature_equal is true exactly when
\* the two stored signatures are the same string, and equal is true exactly
\* when signature_equal is true or all six added / removed / modified
\* collections are empty; so signature_equal=true with equal=false never
\* occurs, while equal=true with signature_equal=false does.
C16_EqualIffSignatureOrEmptyDiff ==
    (last.op = "compare_snapshots" /\ last.ok) =>
        LET a == SnapshotGet(snapshots, last.data.snapshot_a.snapshot_id)[1]
            b == SnapshotGet(snapshots, last.data.snapshot_b.snapshot_id)[1]
            pc == last.data.part_changes
            rc == last.data.relationship_changes
            all_empty == Len(pc.added) + Len(pc.removed) + Len(pc.modified)
                             + Len(rc.added) + Len(rc.removed) + Len(rc.modified) = 0
        IN /\ last.data.signature_equal <=> (a.signature = b.signature)
           /\ last.data.equal <=> (last.data.signature_equal \/ all_empty)
           /\ ~(last.data.signature_equal /\ ~last.data.equal)

\* two snapshots with different signatures and no difference in any
\* collection: equal=true with signature_equal=false
C16_Witness ==
    /\ last.op = "compare_snapshots" /\ last.ok
    /\ last.data.equal
    /\ ~last.data.signature_equal
    /\ last.data.snapshot_a.signature # last.data.snapshot_b.signature

\* C17: every result has ok=false exactly when its errors list is not empty,
\* and an exception raised inside an operation becomes a result: when
\* create_snapshot is to save under a snapshot_id that is already stored,
\* SnapshotRepository.save raises, and the call returns ok=false with one
\* error message and stores nothing.
C17_OkIffNoErrors ==
    [][/\ last'.ok <=> (last'.errors = <<>>)
       /\ (/\ last'.op = "create_snapshot"
           /\ ~last'.args.deduplicate_if_identical
           /\ SnapshotGet(snapshots,
                          SnapshotId(last'.args.created_at, last'.args.uuid)) # <<>>)
              => (/\ ~last'.ok
                  /\ Len(last'.errors) = 1
                  /\ snapshots' = snapshots)]_vars

\* create_snapshot ran into a stored snapshot_id: one error, the stored
\* snapshot is still there
C17_Witness ==
    /\ last.op = "create_snapshot"
    /\ ~last.ok
    /\ ~last.args.deduplicate_if_identical
    /\ Len(last.errors) = 1
    /\ SnapshotGet(snapshots, SnapshotId(last.args.created_at, last.args.uuid)) # <<>>

(***************************************************************************)
(* SpecListing: get_children and get_parents over relationships between    *)
(* A, B and C whose qty is 2, 3 or 10; only A and B can be catalogued.     *)
(***************************************************************************)
ListingQtys == {2, 3, 10}

ListingRelRows ==
    {<<"R1", "A", "B">>, <<"R2", "A", "B">>, <<"R3", "A", "C">>, <<"R3", "C", "B">>}

ListingAddPart ==
    \E pn \in {"A", "B"} : AddOrUpdatePart(pn, "Part", <<>>, 1, TRUE)

ListingAddRelationship ==
    \E row \in ListingRelRows, qty \in ListingQtys :
        AddOrUpdateRelationship(RelArgs(row[2], row[3], PyInt(qty), row[1], row[1],
                                        <<>>, 1, TRUE, TRUE))

ListingDeleteRelationship ==
    \E row \in ListingRelRows : DeleteRelationship(row[1])

ListingGetChildren == \E pn \in {"A", "C", ""} : GetChildren(pn)

ListingGetParents == \E pn \in {"B", "C", ""} : GetParents(pn)

NextListing ==
    \/ ListingAddPart
    \/ ListingAddRelationship
    \/ ListingDeleteRelationship
    \/ ListingGetChildren
    \/ ListingGetParents

SpecListing == Init /\ [][NextListing]_vars

\* the key (parent, child, qty, rel_id) with qty as a number
NumericRelKey(r) ==
    <<StrOrd(r.parent_part_number), StrOrd(r.child_part_number), r.qty, StrOrd(r.rel_id)>>

\* the relationships a get_children or get_parents result lists, in order
ListedRelationships(result) ==
    IF result.op = "get_children"
        THEN [i \in 1..Len(result.data.children) |-> result.data.children[i].relationship]
    ELSE [i \in 1..Len(result.data.parents) |-> result.data.parents[i].relationship]

\* C18: get_children and get_parents list the relationships in ascending
\* order of (parent, child, qty, rel_id) with qty compared as a number: of two
\* A->B relationships the one with qty 2 comes before the one with qty 10.
C18_ListedByNumericQty ==
    (last.op \in {"get_children", "get_parents"} /\ last.ok) =>
        LET listed == ListedRelationships(last)
        IN \A i, j \in 1..Len(listed) :
              i < j => LexLess(NumericRelKey(listed[i]), NumericRelKey(listed[j]))

\* the order the code produces: qty is compared as the text of
\* canonical_number, "10" before "2"
C18_ListedByQtyText ==
    (last.op \in {"get_children", "get_parents"} /\ last.ok) =>
        LET listed == ListedRelationships(last)
        IN \A i, j \in 1..Len(listed) :
              i < j => LexLess(RelSortKey(listed[i]), RelSortKey(listed[j]))

(***************************************************************************)
(* SpecSnapshotRace: caller p1 takes snapshots of root A in two steps      *)
(* while relationships are written and deleted by another process; the     *)
(* catalog is empty.  R1 is A->B or C->D, R2 is B->C.                      *)
(***************************************************************************)
RaceRelRows == {<<"R1", "A", "B">>, <<"R1", "C", "D">>, <<"R2", "B", "C">>}

RaceWriteRelationship ==
    \E row \in RaceRelRows :
        AddOrUpdateRelationship(RelArgs(row[2], row[3], PyInt(1), row[1], row[1],
                                        <<>>, 1, TRUE, TRUE))

RaceDeleteRelationship ==
    \E row \in RaceRelRows : DeleteRelationship(row[1])

RaceTraverse ==
    \E dedupe \in BOOLEAN, created_at \in SnapTimes :
        CreateSnapshotTraverse("p1", SnapshotArgs("A", "", dedupe, created_at, "a"))

RaceFreeze == CreateSnapshotFreeze("p1")

RaceTornRead == CreateSnapshotTornRead("p1")

NextSnapshotRace ==
    \/ RaceWriteRelationship
    \/ RaceDeleteRelationship
    \/ RaceTraverse
    \/ RaceFreeze
    \/ RaceTornRead

SpecSnapshotRace == Init /\ [][NextSnapshotRace]_vars

\* relationship r is stored in store and its parent is root or a part below root
ReachableIn(store, root, r) ==
    /\ r \in SeqToSet(store)
    /\ r.parent_part_number \in {root} \cup Descendants(Edges(store), root)

\* C19: create_snapshot is not isolated from a concurrent writer: a
\* relationship updated between the traversal and the re-read of the store
\* is frozen as it is then, reachable or not; but a call whose two steps saw
\* the same relationship store (nothing written in between) returns a
\* snapshot in which every relationship is reachable from the root.
C19_UninterleavedSnapshotIsReachable ==
    [][\A p \in Callers :
          (/\ calls[p] # <<>>
           /\ calls[p][1].op = "create_snapshot"
           /\ calls'[p] = <<>>
           /\ calls[p][1].store_at_traversal = rels
           /\ last'.ok)
              => \A i \in 1..Len(last'.data.snapshot.relationships) :
                     ReachableIn(rels, calls[p][1].args.root_part_number,
                                 last'.data.snapshot.relationships[i])]_vars

\* a new snapshot of A that holds R1 = C->D: R1 was A->B when the subgraph
\* was traversed and was rewritten before the store was read again; C->D is
\* reachable from A neither in the store traversed nor in the store now
C19_Witness ==
    /\ last.op = "create_snapshot" /\ last.ok
    /\ "store_at_traversal" \in DOMAIN last
    /\ ~last.data.deduplicated
    /\ \E i \in 1..Len(last.data.snapshot.relationships) :
           LET r == last.data.snapshot.relationships[i]
           IN /\ r.rel_id = "R1" /\ r.parent_part_number = "C"
              /\ ~ReachableIn(last.store_at_traversal, "A", r)
              /\ ~ReachableIn(rels, "A", r)

\* a snapshot whose two steps saw the same store
C19_WitnessUninterleaved ==
    /\ last.op = "create_snapshot" /\ last.ok
    /\ "store_at_traversal" \in DOMAIN last
    /\ last.store_at_traversal = rels
    /\ Len(last.data.snapshot.relationships) = 2

(***************************************************************************)
(* SpecRelationshipRace: the callers p1 and p2 run add_or_update_relationship *)
(* step by step on one data directory, starting from the empty store; R1   *)
(* is A->B or B->C, R2 is B->A.  The catalog is empty, the calls pass      *)
(* allow_dangling.                                                         *)
(***************************************************************************)
PairRelRows == {<<"R1", "A", "B">>, <<"R1", "B", "C">>, <<"R2", "B", "A">>}

PairArgs ==
    {RelArgs(row[2], row[3], PyInt(1), row[1], row[1], <<>>, 1, TRUE, TRUE) :
        row \in PairRelRows}

PairCheck == \E p \in Callers, a \in PairArgs : AddRelationshipCheck(p, a)

PairUpsertRead == \E p \in Callers : AddRelationshipUpsertRead(p)

PairUpsertWrite == \E p \in Callers : AddRelationshipUpsertWrite(p)

PairTornRead == \E p \in Callers, a \in PairArgs : AddRelationshipTornRead(p, a)

PairDeleteRelationship == \E row \in PairRelRows : DeleteRelationship(row[1])

NextRelationshipRace ==
    \/ PairCheck
    \/ PairUpsertRead
    \/ PairUpsertWrite
    \/ PairTornRead
    \/ PairDeleteRelationship

SpecRelationshipRace == Init /\ [][NextRelationshipRace]_vars

\* C20: the cycle check and the write of add_or_update_relationship are not
\* one atomic step: two interleaved calls can both return ok=true and leave
\* a cycle in the store, or lose a write; but a call between whose check and
\* write nothing else was written (the check, the read of upsert and the
\* write saw the same store) leaves an acyclic store that holds every other
\* relationship it found.
C20_UninterleavedWriteIsAcyclic ==
    [][\A p \in Callers :
          (/\ calls[p] # <<>>
           /\ calls[p][1].op = "add_or_update_relationship"
           /\ calls[p][1].read # <<>>
           /\ calls'[p] = <<>>
           /\ calls[p][1].store_at_check = rels
           /\ calls[p][1].read[1] = rels)
              => /\ last'.ok
                 /\ ~HasCycle(Edges(rels'))
                 /\ rels' = RelUpsert(rels, calls[p][1].candidate)]_vars

\* A->B and B->A are both stored: each call passed its cycle check before
\* the other wrote, and both returned ok=true
C20_Witness ==
    /\ last.op = "add_or_update_relationship" /\ last.ok
    /\ "store_before_write" \in DOMAIN last
    /\ Edges(rels) = {<<"A", "B">>, <<"B", "A">>}
    /\ HasCycle(Edges(rels))

\* a lost write: the store held a relationship of another rel_id just before
\* this call's write, and does not hold it after
C20_WitnessLostWrite ==
    /\ last.op = "add_or_update_relationship" /\ last.ok
    /\ "store_before_write" \in DOMAIN last
    /\ \E i \in 1..Len(last.store_before_write) :
           /\ last.store_before_write[i].rel_id # last.data.relationship.rel_id
           /\ RelGet(rels, last.store_before_write[i].rel_id) = <<>>

\* the calls of Spec that name their rel_id
UpdateArgs ==
    {RelArgs(parent, child, PyInt(q), rel_id, rel_id, <<>>, 1, TRUE, TRUE) :
        parent \in PartNumbers, child \in PartNumbers, q \in 1..MaxQty, rel_id \in RelIds}

\* result is what a call with the arguments a returned: it carries the
\* candidate of a, stored or rejected for a cycle
IsCallOf(result, a) ==
    /\ result.op = "add_or_update_relationship"
    /\ result.ok \/ CycleRejected(result)
    /\ LET candidate == IF result.ok THEN result.data.relationship ELSE result.candidate
       IN /\ candidate.rel_id = a.rel_id
          /\ candidate.parent_part_number = a.parent_part_number
          /\ candidate.child_part_number = a.child_part_number
          /\ candidate.qty = a.qty.n

\* rel_id -> <<parent, child>> of a store, as a set of pairs
EdgeById(store) ==
    {<<store[i].rel_id, store[i].parent_part_number, store[i].child_part_number>> :
        i \in 1..Len(store)}

\* C21: a call whose rel_id names a stored relationship is checked on the
\* stored relationships without that relationship's old edge plus the
\* candidate: it is accepted exactly when the graph after the replacement is
\* acyclic, and then returns created=false and replaces the record, leaving
\* every other relationship alone; with only R1: A->B stored, updating R1 to
\* B->A succeeds and the store holds exactly B->A.
C21_UpdateCheckedWithoutOldEdge ==
    [][\A a \in UpdateArgs :
          (/\ a.parent_part_number # a.child_part_number
           /\ RelGet(rels, a.rel_id) # <<>>
           /\ IsCallOf(last', a)
           /\ AddOrUpdateRelationship(a))
              => /\ last'.ok <=> ~HasCycle(HypotheticalEdges(rels, a))
                 /\ ~last'.ok => rels' = rels
                 /\ last'.ok =>
                       /\ ~last'.data.created
                       /\ Len(rels') = Len(rels)
                       /\ EdgeById(rels') =
                              {e \in EdgeById(rels) : e[1] # a.rel_id}
                                  \cup {<<a.rel_id, a.parent_part_number,
                                          a.child_part_number>>}
                 /\ (/\ EdgeById(rels) = {<<"R1", "A", "B">>}
                     /\ a.rel_id = "R1"
                     /\ a.parent_part_number = "B" /\ a.child_part_number = "A")
                        => (last'.ok /\ EdgeById(rels') = {<<"R1", "B", "A">>})]_vars

\* the store holds exactly R1: B->A after an update of R1
C21_Witness ==
    /\ last.op = "add_or_update_relationship" /\ last.ok
    /\ ~last.data.created
    /\ last.data.relationship.rel_id = "R1"
    /\ EdgeById(rels) = {<<"R1", "B", "A">>}
    /\ Len(rels) = 1

\* C22: a snapshot newly persisted by an uninterleaved create_snapshot(root)
\* holds exactly the relationships get_subgraph(root) returns at that moment,
\* each rel_id once and as stored now, and exactly the catalogued parts among
\* the root and the ends of those relationships, each part_number once and
\* as catalogued now; a root or an end missing from the catalog is left out
\* of parts with a warning, and the call fails for no such reason.
C22_SnapshotIsLiveSubgraph ==
    [][(last'.op = "create_snapshot" /\ "store_at_traversal" \notin DOMAIN last') =>
          LET root == last'.args.root_part_number
              live == get_subgraph(parts, rels, root).data.relationships
              wanted == {root} \cup RelNodes(live)
          IN /\ ~last'.ok =>
                    SnapshotGet(snapshots, SnapshotId(last'.args.created_at,
                                                      last'.args.uuid)) # <<>>
             /\ (last'.ok /\ ~last'.data.deduplicated) =>
                    LET snapshot == last'.data.snapshot
                    IN /\ SnapshotGet(snapshots', snapshot.snapshot_id) = <<snapshot>>
                       /\ SnapshotGet(snapshots, snapshot.snapshot_id) = <<>>
                       /\ SeqToSet(snapshot.relationships) = SeqToSet(live)
                       /\ Len(snapshot.relationships) = Cardinality(SeqToSet(live))
                       /\ \A i \in 1..Len(snapshot.relationships) :
                              <<snapshot.relationships[i]>>
                                  = RelGet(rels, snapshot.relationships[i].rel_id)
                       /\ {snapshot.parts[i].part_number : i \in 1..Len(snapshot.parts)}
                              = {pn \in wanted : PartExists(parts, pn)}
                       /\ Len(snapshot.parts)
                              = Cardinality({pn \in wanted : PartExists(parts, pn)})
                       /\ \A i \in 1..Len(snapshot.parts) :
                              <<snapshot.parts[i]>>
                                  = PartGet(parts, snapshot.parts[i].part_number)
                       /\ \A pn \in wanted :
                              ~PartExists(parts, pn) =>
                                  ("Part '" \o pn
                                      \o "' is referenced in BOM but missing from catalog")
                                      \in SeqToSet(last'.warnings)]_vars

\* a new snapshot of A holding part A and R1: A->B, with the warning that B
\* is missing from the catalog
C22_Witness ==
    /\ last.op = "create_snapshot" /\ last.ok /\ ~last.data.deduplicated
    /\ last.args.root_part_number = "A"
    /\ Len(last.data.snapshot.parts) = 1
    /\ Len(last.data.snapshot.relationships) = 1
    /\ "Part 'B' is referenced in BOM but missing from catalog" \in SeqToSet(last.warnings)


\* ---------------------------------------------------------------------------
\* Spec: the rollups' loops on the stores serialized calls leave.  A rollup
\* runs iteration by iteration and no other call runs while it does; a
\* running loop is never held back, which is the fairness condition.
\* ---------------------------------------------------------------------------
TerminationPartRows ==
    {<<"B", <<<<"weight_kg", PyInt(5)>>, <<"unit_weight", PyInt(5)>>>>>>,
     <<"C", <<<<"weight_kg", PyInt(7)>>>>>>}

TerminationRelRows ==
    {<<"R1", "A", "B", PyInt(2)>>, <<"R2", "B", "C", PyInt(3)>>,
     <<"R3", "A", "C", PyInt(1)>>, <<"R2", "B", "A", PyInt(1)>>,
     <<"R3", "C", "A", PyInt(1)>>, <<"R3", "C", "C", PyInt(1)>>}

TerminationRoots == {"A", "B", "C"}

RollupRunning(p) == calls[p] # <<>>

TerminationAddPart ==
    /\ ~RollupRunning("p1")
    /\ \E row \in TerminationPartRows :
           AddOrUpdatePart(row[1], "Part", row[2], 1, FALSE)

TerminationAddRelationship ==
    /\ ~RollupRunning("p1")
    /\ \E row \in TerminationRelRows :
           AddOrUpdateRelationship(RelArgs(row[2], row[3], row[4], row[1], row[1],
                                           <<>>, 1, TRUE, TRUE))

TerminationDeleteRelationship ==
    /\ ~RollupRunning("p1")
    /\ \E rel_id \in {"R1", "R2", "R3"} : DeleteRelationship(rel_id)

TerminationBegin ==
    \E kind \in {"rollup_numeric_attribute", "rollup_weight_with_maturity"},
       root \in TerminationRoots, include_root \in BOOLEAN :
        RollupBegin("p1", kind, [root_part_number |-> root, include_root |-> include_root])

TerminationIterate == RollupIterate("p1") \/ MaturityIterate("p1")

TerminationReturn == RollupReturn("p1")

NextTermination ==
    \/ TerminationAddPart
    \/ TerminationAddRelationship
    \/ TerminationDeleteRelationship
    \/ TerminationBegin
    \/ RollupIterate("p1")
    \/ MaturityIterate("p1")
    \/ TerminationReturn

SpecTermination ==
    Init /\ [][NextTermination]_vars /\ WF_vars(TerminationIterate)

\* no part number occurs twice on the path
PathIsSimple(path) ==
    \A i, j \in 1..Len(path) : path[i] = path[j] => i = j

\* C23: on every relationship store that serialized add_or_update_relationship
\* and delete_relationship calls leave, a running rollup_numeric_attribute or
\* rollup_weight_with_maturity, whatever its root, never holds a queue entry
\* whose path names a part number twice, and its queue eventually empties.
C23_RollupsTerminate ==
    /\ [](RollupRunning("p1") =>
              \A i \in 1..Len(calls["p1"][1].queue) :
                  PathIsSimple(calls["p1"][1].queue[i].path))
    /\ RollupRunning("p1") ~> (RollupRunning("p1") /\ calls["p1"][1].queue = <<>>)

\* a rollup from A is two levels down the chain A -> B -> C while A -> C
\* is queued too
C23_Witness ==
    /\ RollupRunning("p1")
    /\ calls["p1"][1].args.root_part_number = "A"
    /\ Len(rels) = 3
    /\ \E i \in 1..Len(calls["p1"][1].queue) :
           calls["p1"][1].queue[i].path = <<"A", "B", "C">>

\* the loop's result is the result of the call made in one step
C23_StepwiseAgrees ==
    [][(RollupRunning("p1") /\ ~RollupRunning("p1")') =>
          last' = IF calls["p1"][1].op = "rollup_numeric_attribute"
                      THEN rollup_numeric_attribute(parts, rels,
                               calls["p1"][1].args.root_part_number, "weight_kg",
                               calls["p1"][1].args.include_root)
                  ELSE rollup_weight_with_maturity(parts, rels,
                           calls["p1"][1].args.root_part_number, "maturity_factor", 1,
                           calls["p1"][1].args.include_root, 10)]_vars


\* the chains from the root that rollup_weight_with_maturity follows: no part
\* before the chain's end applies its unit weight
VisitedChains(result) ==
    LET root == result.data.root_part_number
    IN {c \in ChainsFrom(rels, root) :
           \A k \in 1..Len(c) :
               ~Overrides(parts, ChainPath(rels, root, c)[k],
                          result.data.include_root \/ k > 1)}

\* the part is catalogued without a unit_weight
Weightless(catalog, pn) ==
    /\ PartExists(catalog, pn)
    /\ ~DictHas(PartGet(catalog, pn)[1].attributes, "unit_weight")

\* C24: in rollup_weight_with_maturity a visited part that is missing from the
\* catalog has the warning "is missing from catalog" and no breakdown entry,
\* and is among unresolved_nodes iff it has no children; a visited in-scope
\* part that is catalogued without a unit_weight has no breakdown entry and
\* is among unresolved_nodes (with its warning) iff it has no children; below
\* both the traversal goes on with multiplier x qty, so every visited part
\* that applies its weight has its entry with the product of the qty along
\* its path; and no two unresolved_nodes share part_number and reason.
C24_UnresolvedNodes ==
    (last.op = "rollup_weight_with_maturity" /\ last.ok) =>
        LET root == last.data.root_part_number
            breakdown == last.data.breakdown
            unresolved == last.data.unresolved_nodes
            Listed(pn, reason) ==
                \E i \in 1..Len(unresolved) :
                    unresolved[i].part_number = pn /\ unresolved[i].reason = reason
            Unlisted(pn) == \A i \in 1..Len(unresolved) : unresolved[i].part_number # pn
            NoEntry(path) == \A i \in 1..Len(breakdown) : breakdown[i].path # path
        IN /\ \A c \in VisitedChains(last) :
                 LET path == ChainPath(rels, root, c)
                     pn == ChainEnd(rels, root, c)
                     childless == find_children(rels, pn) = <<>>
                     in_scope == last.data.include_root \/ c # <<>>
                 IN /\ ~PartExists(parts, pn) =>
                           /\ ("Part '" \o pn \o "' is missing from catalog")
                                  \in SeqToSet(last.warnings)
                           /\ NoEntry(path)
                           /\ IF childless
                                  THEN Listed(pn, "missing part and no children to continue rollup")
                              ELSE Unlisted(pn)
                    /\ (Weightless(parts, pn) /\ in_scope) =>
                           /\ NoEntry(path)
                           /\ IF childless
                                  THEN /\ Listed(pn, "no unit weight and no children")
                                       /\ ("Part '" \o pn \o "' has no 'unit_weight' and no children to derive weight")
                                              \in SeqToSet(last.warnings)
                              ELSE Unlisted(pn)
                    /\ Overrides(parts, pn, in_scope) =>
                           \E i \in 1..Len(breakdown) :
                               /\ breakdown[i].path = path
                               /\ breakdown[i].multiplier = ChainProduct(rels, c)
           /\ \A i, j \in 1..Len(unresolved) :
                  (/\ unresolved[i].part_number = unresolved[j].part_number
                   /\ unresolved[i].reason = unresolved[j].reason) => i = j
           /\ \A i \in 1..Len(unresolved) :
                  \E c \in VisitedChains(last) :
                      /\ ChainPath(rels, root, c) = unresolved[i].path
                      /\ ChainEnd(rels, root, c) = unresolved[i].part_number

\* from A, catalogued without a unit_weight like B, the missing leaf D is
\* reached by A -> D and by A -> B -> D and is listed once; A and B have
\* children and are not listed
C24_Witness ==
    /\ last.op = "rollup_weight_with_maturity" /\ last.ok
    /\ last.data.root_part_number = "A" /\ last.data.include_root
    /\ Len(rels) = 3
    /\ Weightless(parts, "A") /\ Weightless(parts, "B") /\ ~PartExists(parts, "D")
    /\ Cardinality({c \in VisitedChains(last) : ChainEnd(rels, "A", c) = "D"}) = 2
    /\ Len(last.data.unresolved_nodes) = 1
    /\ last.data.unresolved_nodes[1].part_number = "D"


RECURSIVE SumTotals(_)
SumTotals(rows) ==
    IF rows = <<>> THEN 0 ELSE Head(rows).total_contribution + SumTotals(Tail(rows))

\* C25: in a rollup_weight_with_maturity result part_totals has exactly one
\* row per part number that has a breakdown entry, with total_contribution the
\* sum of that part's contributions and occurrences their count; the rows
\* stand in descending total_contribution, equal totals in ascending
\* part_number; top_contributors is the first min(top_n, rows) rows; and the
\* rows' total_contribution add up to total.
C25_PartTotals ==
    (last.op = "rollup_weight_with_maturity" /\ last.ok) =>
        LET breakdown == last.data.breakdown
            rows == last.data.part_totals
            top_n == last.args.top_n
            EntriesOf(pn) == {i \in 1..Len(breakdown) : breakdown[i].part_number = pn}
            OfPart(pn) == LET isOf(e) == e.part_number = pn IN SelectSeq(breakdown, isOf)
        IN /\ \A i \in 1..Len(breakdown) :
                  \E k \in 1..Len(rows) : rows[k].part_number = breakdown[i].part_number
           /\ \A k \in 1..Len(rows) :
                  /\ EntriesOf(rows[k].part_number) # {}
                  /\ rows[k].total_contribution = SumContributions(OfPart(rows[k].part_number))
                  /\ rows[k].occurrences = Cardinality(EntriesOf(rows[k].part_number))
                  /\ \A j \in 1..Len(rows) : rows[j].part_number = rows[k].part_number => j = k
           /\ \A j, k \in 1..Len(rows) :
                  j < k => \/ rows[j].total_contribution > rows[k].total_contribution
                           \/ /\ rows[j].total_contribution = rows[k].total_contribution
                              /\ StrOrd(rows[j].part_number) < StrOrd(rows[k].part_number)
           /\ last.data.top_contributors
                  = SubSeq(rows, 1, IF top_n < Len(rows) THEN top_n ELSE Len(rows))
           /\ SumTotals(rows) = last.data.total

\* B (12 x 2) and D (8 x 3) both total 24 and B comes first; with top_n = 1
\* top_contributors is B's row alone
C25_Witness ==
    /\ last.op = "rollup_weight_with_maturity" /\ last.ok
    /\ last.args.top_n = 1
    /\ Len(last.data.part_totals) = 2
    /\ last.data.part_totals[1].part_number = "B"
    /\ last.data.part_totals[2].part_number = "D"
    /\ last.data.part_totals[1].total_contribution = 24
    /\ last.data.part_totals[2].total_contribution = 24
    /\ Len(last.data.top_contributors) = 1

\* D's 24 stands before B's 10
C25_WitnessRanked ==
    /\ last.op = "rollup_weight_with_maturity" /\ last.ok
    /\ Len(last.data.part_totals) = 2
    /\ last.data.part_totals[1].part_number = "D"
    /\ last.data.part_totals[2].part_number = "B"
    /\ last.data.part_totals[1].total_contribution = 24
    /\ last.data.part_totals[2].total_contribution = 10


\* C26: a rollup called with include_root = false has no breakdown entry whose
\* path is the root alone, and it descends into the root's children with each
\* relationship's qty as the multiplier: every child of the root that applies
\* its value has the entry <<root, child>> with multiplier qty.  In
\* rollup_weight_with_maturity this holds as well when the root has a numeric
\* unit_weight, which neither enters the result nor stops the descent.
C26_RootOutOfScope ==
    (/\ last.op \in {"rollup_numeric_attribute", "rollup_weight_with_maturity"}
     /\ last.ok /\ ~last.data.include_root) =>
        LET root == last.data.root_part_number
            breakdown == last.data.breakdown
            children == find_children(rels, root)
        IN /\ \A i \in 1..Len(breakdown) :
                  /\ Len(breakdown[i].path) >= 2
                  /\ breakdown[i].path[1] = root
           /\ \A k \in 1..Len(children) :
                  HasNumeric(parts, children[k].child_part_number, "unit_weight") =>
                      \E i \in 1..Len(breakdown) :
                          /\ breakdown[i].path = <<root, children[k].child_part_number>>
                          /\ breakdown[i].part_number = children[k].child_part_number
                          /\ breakdown[i].multiplier = children[k].qty
           /\ (HasNumeric(parts, root, "unit_weight") /\ children = <<>>) =>
                  /\ breakdown = <<>>
                  /\ last.data.total = 0

\* rollup_weight_with_maturity from A without the root: A's unit_weight 5 is
\* left out and the children B (qty 2) and D (qty 3) have their entries
C26_Witness ==
    /\ last.op = "rollup_weight_with_maturity" /\ last.ok /\ ~last.data.include_root
    /\ last.data.root_part_number = "A"
    /\ HasNumeric(parts, "A", "unit_weight")
    /\ Len(last.data.breakdown) = 2
    /\ last.data.breakdown[1].path = <<"A", "B">> /\ last.data.breakdown[1].multiplier = 2
    /\ last.data.breakdown[2].path = <<"A", "D">> /\ last.data.breakdown[2].multiplier = 3

\* the same for rollup_numeric_attribute
C26_WitnessNumeric ==
    /\ last.op = "rollup_numeric_attribute" /\ last.ok /\ ~last.data.include_root
    /\ last.data.root_part_number = "A"
    /\ HasNumeric(parts, "A", "unit_weight")
    /\ \E i \in 1..Len(last.data.breakdown) :
           /\ last.data.breakdown[i].path = <<"A", "B">>
           /\ last.data.breakdown[i].multiplier = 2


\* the part is catalogued with a unit_weight that is text float() refuses
NonNumericWeight(catalog, pn) ==
    /\ PartExists(catalog, pn)
    /\ DictHas(PartGet(catalog, pn)[1].attributes, "unit_weight")
    /\ DictGet(PartGet(catalog, pn)[1].attributes, "unit_weight").t = "str"
    /\ DictGet(PartGet(catalog, pn)[1].attributes, "unit_weight").s \notin NumeralTexts

\* C30: in rollup_weight_with_maturity a visited in-scope part whose
\* unit_weight is present but not numeric is no override: it has the warning
\* "has non-numeric 'unit_weight'", no breakdown entry and no part_totals row,
\* its children are traversed with multiplier x qty, and it is never among
\* unresolved_nodes, with or without children.
C30_NonNumericWeightIsNoOverride ==
    (last.op = "rollup_weight_with_maturity" /\ last.ok) =>
        LET root == last.data.root_part_number
            breakdown == last.data.breakdown
            unresolved == last.data.unresolved_nodes
            rows == last.data.part_totals
        IN \A c \in VisitedChains(last) :
               LET path == ChainPath(rels, root, c)
                   pn == ChainEnd(rels, root, c)
                   children == find_children(rels, pn)
               IN (NonNumericWeight(parts, pn) /\ (last.data.include_root \/ c # <<>>)) =>
                      /\ \E i \in 1..Len(last.warnings) :
                             last.warnings[i] = "Part '" \o pn \o "' has non-numeric 'unit_weight': "
                                 \o DictGet(PartGet(parts, pn)[1].attributes, "unit_weight").s
                      /\ \A i \in 1..Len(breakdown) :
                             breakdown[i].path # path /\ breakdown[i].part_number # pn
                      /\ \A i \in 1..Len(rows) : rows[i].part_number # pn
                      /\ \A i \in 1..Len(unresolved) : unresolved[i].part_number # pn
                      /\ \A k \in 1..Len(children) :
                             Overrides(parts, children[k].child_part_number, TRUE) =>
                                 \E i \in 1..Len(breakdown) :
                                     /\ breakdown[i].path
                                            = Append(path, children[k].child_part_number)
                                     /\ breakdown[i].multiplier
                                            = ChainProduct(rels, c) * children[k].qty

\* B with unit_weight "x" is a leaf under A: the rollup from A warns about B
\* and lists it neither in the breakdown nor among unresolved_nodes
C30_Witness ==
    /\ last.op = "rollup_weight_with_maturity" /\ last.ok
    /\ last.data.root_part_number = "A"
    /\ NonNumericWeight(parts, "B")
    /\ find_children(rels, "B") = <<>>
    /\ \E c \in VisitedChains(last) : ChainEnd(rels, "A", c) = "B"
    /\ "Part 'B' has non-numeric 'unit_weight': x" \in SeqToSet(last.warnings)
    /\ last.data.unresolved_nodes = <<>>
    /\ last.data.breakdown = <<>>

\* B with unit_weight "x" has the child D, whose weight enters with 2 x 4
C30_WitnessDescends ==
    /\ last.op = "rollup_weight_with_maturity" /\ last.ok
    /\ last.data.root_part_number = "A"
    /\ NonNumericWeight(parts, "B")
    /\ \E i \in 1..Len(last.data.breakdown) :
           /\ last.data.breakdown[i].path = <<"A", "B", "D">>
           /\ last.data.breakdown[i].multiplier = 8


(***************************************************************************)
(* SpecStrict: serialized part and relationship calls in which every      *)
(* add_or_update_relationship passes allow_dangling = false and every      *)
(* delete_part passes allow_if_referenced = false, with the queries that   *)
(* report missing parts.                                                   *)
(***************************************************************************)
StrictParts == {"A", "B", "C"}

StrictRelRows ==
    {<<"R1", "A", "B">>, <<"R1", "A", "C">>, <<"R2", "B", "C">>, <<"R2", "C", "B">>}

StrictAddPart ==
    \E pn \in StrictParts : AddOrUpdatePart(pn, "Part", <<>>, 1, TRUE)

StrictDeletePart ==
    \E pn \in StrictParts : DeletePart(pn, FALSE)

StrictAddRelationship ==
    \E row \in StrictRelRows :
        AddOrUpdateRelationship(RelArgs(row[2], row[3], PyInt(1), row[1], row[1],
                                        <<>>, 1, FALSE, TRUE))

StrictDeleteRelationship ==
    \E rel_id \in {"R1", "R2"} : DeleteRelationship(rel_id)

StrictGetSubgraph == \E pn \in StrictParts : GetSubgraph(pn)

StrictGetChildren == \E pn \in StrictParts : GetChildren(pn)

StrictGetParents == \E pn \in StrictParts : GetParents(pn)

StrictCreateSnapshot ==
    \E pn \in StrictParts : CreateSnapshot(SnapshotArgs(pn, "", TRUE, 1, "a"))

NextStrict ==
    \/ StrictAddPart
    \/ StrictDeletePart
    \/ StrictAddRelationship
    \/ StrictDeleteRelationship
    \/ StrictGetSubgraph
    \/ StrictGetChildren
    \/ StrictGetParents
    \/ StrictCreateSnapshot

SpecStrict == Init /\ [][NextStrict]_vars

\* both ends of every stored relationship are catalogued
EndpointsCatalogued ==
    \A i \in 1..Len(rels) :
        /\ PartExists(parts, rels[i].parent_part_number)
        /\ PartExists(parts, rels[i].child_part_number)

\* the last call is a successful query of the four that report missing parts;
\* a missing part is the only thing their warnings report
MissingPartQuery ==
    /\ last.op \in {"get_subgraph", "get_children", "get_parents", "create_snapshot"}
    /\ last.ok

\* C27 as stated: with allow_dangling = false and allow_if_referenced = false
\* throughout, both ends of every stored relationship are catalogued and
\* get_subgraph, get_children, get_parents and create_snapshot never report a
\* missing part.
C27_NeverReportsMissingPart ==
    /\ EndpointsCatalogued
    /\ MissingPartQuery => last.warnings = <<>>

\* C27 amended: both ends of every stored relationship are catalogued;
\* get_children and get_parents report no missing part; get_subgraph and
\* create_snapshot report none for a catalogued root, and for a root that is
\* not catalogued they report the root itself and nothing else.
C27_OnlyTheRootIsReportedMissing ==
    /\ EndpointsCatalogued
    /\ (MissingPartQuery /\ last.op \in {"get_children", "get_parents"}) =>
           last.warnings = <<>>
    /\ (MissingPartQuery /\ last.op = "get_subgraph") =>
           last.warnings = IF PartExists(parts, last.data.root_part_number) THEN <<>>
                           ELSE <<"Missing parts in catalog: " \o last.data.root_part_number>>
    /\ (MissingPartQuery /\ last.op = "create_snapshot") =>
           last.warnings
               = IF PartExists(parts, last.args.root_part_number) THEN <<>>
                 ELSE <<"Missing parts in catalog: " \o last.args.root_part_number,
                        "Part '" \o last.args.root_part_number
                            \o "' is referenced in BOM but missing from catalog">>

\* get_subgraph of A over A -> B -> C, all three catalogued, reports nothing
C27_Witness ==
    /\ last.op = "get_subgraph" /\ last.ok
    /\ last.data.root_part_number = "A"
    /\ Len(last.data.relationships) = 2
    /\ Len(rels) = 2
    /\ last.warnings = <<>>

\* delete_part of a part that a relationship names was refused
C27_WitnessRefused ==
    /\ last.op = "delete_part" /\ ~last.ok
    /\ Len(rels) = 2
    /\ Len(parts) = 3


(***************************************************************************)
(* SpecDedup: SpecSnap's catalog and relationship calls with every         *)
(* create_snapshot passing deduplicate_if_identical = true, one call at a  *)
(* time.                                                                   *)
(***************************************************************************)
DedupCreate ==
    \E root \in SnapRoots, label \in SnapLabels, created_at \in SnapTimes :
        CreateSnapshot(SnapshotArgs(root, label, TRUE, created_at, "a"))

NextDedup ==
    \/ SnapAddPart
    \/ SnapDeletePart
    \/ SnapAddRelationship
    \/ SnapDeleteRelationship
    \/ DedupCreate

SpecDedup == Init /\ [][NextDedup]_vars

\* no two stored snapshots have the same root and the same signature
NoTwoAlike(snaps) ==
    \A i, j \in 1..Len(snaps) :
        (/\ snaps[i].root_part_number = snaps[j].root_part_number
         /\ snaps[i].signature = snaps[j].signature) => i = j

\* C28: when every create_snapshot passes deduplicate_if_identical = true, no
\* two stored snapshots ever have the same root_part_number and signature,
\* and a deduplicated call stores nothing and returns a stored record of the
\* root as it is stored, with the label and created_at it was stored with
\* whatever label the call passes.
C28_DedupKeepsOnePerSignature ==
    [][/\ NoTwoAlike(snapshots')
       /\ (last'.op = "create_snapshot" /\ last'.ok /\ last'.data.deduplicated) =>
              /\ snapshots' = snapshots
              /\ \E i \in 1..Len(snapshots) :
                     /\ snapshots[i] = last'.data.snapshot
                     /\ snapshots[i].root_part_number = last'.args.root_part_number
                     /\ snapshots[i].signature
                            = build_signature(last'.args.root_part_number,
                                  NowFrozenParts(last'.args.root_part_number),
                                  NowFrozenRelationships(last'.args.root_part_number))]_vars

\* two snapshots of one root are stored and a later call, labelled "v1" at
\* time 2, got back a stored one that has no label and the created_at 1
C28_Witness ==
    /\ last.op = "create_snapshot" /\ last.ok /\ last.data.deduplicated
    /\ last.args.label = "v1" /\ last.data.snapshot.label = PyNone
    /\ last.args.created_at = 2 /\ last.data.snapshot.created_at = 1
    /\ Len(snapshots) >= 2
    /\ \E i, j \in 1..Len(snapshots) :
           i # j /\ snapshots[i].root_part_number = snapshots[j].root_part_number


(***************************************************************************)
(* SpecCyclic: get_subgraph, iteration by iteration, on relationship       *)
(* stores written through the repository, cycles, self-loops and parallel  *)
(* relationships included.  Nothing is written while a traversal runs, and *)
(* a running loop is never held back, which is the fairness condition.     *)
(***************************************************************************)
CyclicRelRows ==
    {<<"R1", "A", "B">>, <<"R2", "B", "A">>, <<"R2", "B", "C">>, <<"R3", "C", "A">>,
     <<"R3", "C", "C">>, <<"R4", "A", "B">>, <<"R4", "C", "D">>}

CyclicRoots == {"A", "B", "C"}

SubgraphRunning(p) == calls[p] # <<>>

CyclicUpsert ==
    /\ ~SubgraphRunning("p1")
    /\ \E row \in CyclicRelRows :
           RepositoryUpsert([rel_id |-> row[1], parent_part_number |-> row[2],
                             child_part_number |-> row[3], qty |-> 1,
                             last_updated |-> 1, attributes |-> <<>>])

CyclicDelete ==
    /\ ~SubgraphRunning("p1")
    /\ \E rel_id \in {"R1", "R2", "R3", "R4"} : RepositoryDelete(rel_id)

CyclicBegin == \E root \in CyclicRoots : SubgraphBegin("p1", root)

CyclicIterate == SubgraphIterate("p1")

CyclicReturn == SubgraphReturn("p1")

NextCyclic ==
    \/ CyclicUpsert
    \/ CyclicDelete
    \/ CyclicBegin
    \/ CyclicIterate
    \/ CyclicReturn

SpecCyclic == Init /\ [][NextCyclic]_vars /\ WF_vars(CyclicIterate)

\* C29: on any relationship store, cyclic ones included, a running
\* get_subgraph has marked every part it expanded once, has listed no rel_id
\* twice and queued one part per listed relationship beside the root, so that
\* its queue eventually empties; and it then returns every stored
\* relationship whose parent is reachable from the root, each exactly once.
C29_SubgraphTerminatesOnCycles ==
    /\ [](SubgraphRunning("p1") =>
              LET c == calls["p1"][1]
              IN /\ Cardinality({c.acc.found[i].rel_id : i \in 1..Len(c.acc.found)})
                        = Len(c.acc.found)
                 /\ c.acc.ids = {c.acc.found[i].rel_id : i \in 1..Len(c.acc.found)}
                 /\ Len(c.acc.queue) <= 1 + Len(c.acc.found)
                 /\ Len(c.acc.found) <= Len(rels)
                 /\ \A i \in 1..Len(c.acc.found) :
                        c.acc.found[i].parent_part_number \in c.visited_nodes)
    /\ SubgraphRunning("p1") ~> (SubgraphRunning("p1") /\ calls["p1"][1].acc.queue = <<>>)
    /\ [][(SubgraphRunning("p1") /\ ~SubgraphRunning("p1")') =>
             LET root == calls["p1"][1].root_part_number
                 got == last'.data.relationships
                 expected == {r \in SeqToSet(rels) :
                                 r.parent_part_number \in Reachable(rels, root)}
             IN /\ last'.ok
                /\ SeqToSet(got) = expected
                /\ Len(got) = Cardinality(expected)
                /\ last' = get_subgraph(parts, rels, root)]_vars

\* get_subgraph of A returned the three relationships of the cycle
\* A -> B -> C -> A
C29_Witness ==
    /\ last.op = "get_subgraph" /\ last.ok
    /\ last.data.root_part_number = "A"
    /\ Edges(rels) = {<<"A", "B">>, <<"B", "C">>, <<"C", "A">>}
    /\ HasCycle(Edges(rels))
    /\ Len(last.data.relationships) = 3

\* a running traversal of a cyclic store meets a part it has visited
C29_WitnessRevisit ==
    /\ SubgraphRunning("p1")
    /\ HasCycle(Edges(rels))
    /\ calls["p1"][1].acc.queue # <<>>
    /\ Head(calls["p1"][1].acc.queue) \in calls["p1"][1].visited_nodes

====
